---- MODULE Spec2Model ----
(***************************************************************************)
(* Model of the two cores of the coordination engine.                      *)
(*                                                                         *)
(* The incident store (package storage): a map from incident id to a       *)
(* pointer to an incident record, guarded by a sync.RWMutex and persisted  *)
(* to incidents.json by writing incidents.json.tmp and renaming it.        *)
(* Every goroutine that calls the store is a process with a program        *)
(* counter; one step of a process is one stretch of the handler between    *)
(* two points where the outside world (another goroutine, the file system, *)
(* a crash) can be observed.                                               *)
(*                                                                         *)
(* The MachineConfigPool client (package integrations): the stability      *)
(* check of a pool and the polling wait built on it, against a provider    *)
(* that may answer each query with any pool object or with an error.       *)
(***************************************************************************)
EXTENDS Integers, Sequences, FiniteSets, TLC

VARIABLES
    now,        \* the latest reading of the clock
    filePath,   \* IncidentStore.filePath: "" = in-memory only
    heap,       \* the incident records the store's pointers refer to
    incidents,  \* IncidentStore.incidents: id -> pointer
    mu,         \* IncidentStore.mu: [w |-> writer or 0, r |-> set of readers]
    fs,         \* the two paths on disk: incidents.json and incidents.json.tmp
    pc,         \* position of every calling goroutine
    loc,        \* locals of every calling goroutine
    ncalls,     \* number of calls started so far
    boot,       \* what the constructor's LoadFromFile returned
    committed,  \* the serializations renamed into place so far
    clock,      \* the time the pool client reads, in units of TimeUnit seconds
    ctxDone,    \* the caller's context is cancelled: ctx.Done() is closed
    wait,       \* the WaitForPoolStable call: its position and locals
    probe,      \* the last IsPoolStable call a caller made directly
    all,        \* the WaitForAllPoolsStable call: its position and locals
    health,     \* the last HealthCheck call
    poolState,  \* what each pool is, as far as the provider has told
    sweeper     \* the cleanup worker: its position, its channels and its counts

storeVars == <<now, filePath, heap, incidents, mu, fs, pc, loc, ncalls, boot, committed>>
clientVars == <<clock, ctxDone, wait, probe, all, health, poolState, sweeper>>
vars == <<storeVars, clientVars>>

----------------------------------------------------------------------------
(* Bounds of the exploration *)

MaxTime == 2
MaxId == 2
MaxCalls == 2

(* The calling goroutines; 0 is "nobody". *)
Procs == {1, 2}
NoProc == 0

(* Incident ids: 0 stands for the empty string, 1..MaxId for the non-empty *)
(* ids in use.  The ids of the form "inc-" + 8 hex digits are GenIds.      *)
EmptyId == 0
Ids == 1..MaxId
GenIds == {i \in Ids : i >= 2}

(* Pointers to incident records. *)
Objs == 1..(MaxId + Cardinality(Procs))

(* time.Time values: ZeroTime is Go's zero time.Time; a nil *time.Time is  *)
(* NilTime.  The clock starts after the zero time.                         *)
ZeroTime == 0
NilTime == -1
StartTime == 1

(* One day, the unit of retentionDays, in clock units. *)
Day == 1

IncidentStatusActive == "active"
IncidentStatusResolved == "resolved"

PersistFileName == "incidents.json"

(* The pool client is modelled with the clock in units of 5 seconds up to  *)
(* MaxClock, and with integers of reduced width: int32 has Int32Bits bits  *)
(* and int64 has Int64Bits bits, both two's complement.  int64 is at least *)
(* two bits wider than int32, so that it holds values a whole 2^Int32Bits  *)
(* beyond either end of int32.                                             *)
MaxClock == 5
Int32Bits == 3
Int64Bits == 5

(* safeInt32Convert, lines 117-118. *)
maxInt32 == 2 ^ (Int32Bits - 1) - 1
minInt32 == 0 - 2 ^ (Int32Bits - 1)

maxInt64 == 2 ^ (Int64Bits - 1) - 1
minInt64 == 0 - 2 ^ (Int64Bits - 1)

(* time.After(10 * time.Second), line 226, in units of the clock. *)
PollInterval == 2

----------------------------------------------------------------------------
(* What the dynamic client answers to Resource(mcpGVR).Get: an error, or a *)
(* MachineConfigPool object.  A field of the object is <<>> when it is     *)
(* missing or not of the type the accessor wants, <<v>> when it holds v.   *)

RawCounts ==
    {<<>>} \cup
    {<<v>> : v \in {minInt64, minInt32 - 2 ^ Int32Bits, minInt32 - 1, minInt32, 0, 2,
                    maxInt32, maxInt32 + 1, maxInt32 + 2 ^ Int32Bits, maxInt64}}

Condition(type, status) == [type |-> type, status |-> status]

RawConditions ==
    {<<>>,
     <<Condition("Updating", "False"), Condition("Degraded", "False")>>,
     <<Condition("Updating", "True"), Condition("Degraded", "False")>>,
     <<Condition("Updating", "False"), Condition("Degraded", "True")>>,
     <<Condition("Degraded", "True"), Condition("Updating", "True")>>}

NoObject ==
    [hasStatus |-> FALSE, machineCount |-> <<>>, updatedMachineCount |-> <<>>,
     conditions |-> <<>>]

ProviderAnswers ==
    {[err |-> "unavailable", object |-> NoObject], [err |-> "", object |-> NoObject]}
    \cup
    {[err |-> "",
      object |-> [hasStatus |-> TRUE, machineCount |-> mc,
                  updatedMachineCount |-> umc, conditions |-> cs]] :
        mc \in RawCounts, umc \in RawCounts, cs \in RawConditions}

(* The conversion int32(val) of line 128: the low Int32Bits bits of val,    *)
(* read as a two's complement number.                                      *)
int32(val) == ((val - minInt32) % (2 ^ Int32Bits)) + minInt32

(* A conversion that is the bare int32(val), without the two range checks. *)
safeInt32ConvertWraps(val) == int32(val)

(* safeInt32Convert, lines 116-129. *)
safeInt32Convert(val) ==
    IF val > maxInt32 THEN maxInt32
    ELSE IF val < minInt32 THEN minInt32
    ELSE int32(val)

(* parseMachineCounts, lines 100-113: a count that is not found stays 0. *)
parseMachineCounts(field) ==
    IF field # <<>> THEN safeInt32Convert(field[1]) ELSE 0

(* parseConditions, lines 139-165. *)
parseConditions(conditions, type) ==
    \E k \in DOMAIN conditions :
        conditions[k].type = type /\ conditions[k].status = "True"

(* The zero MachineConfigPoolStatus, for the calls that return no status. *)
ZeroStatus ==
    [MachineCount |-> 0, UpdatedMachineCount |-> 0, Updating |-> FALSE, Degraded |-> FALSE]

(* parsePoolStatus, lines 76-97. *)
parsePoolStatus(pool) ==
    IF ~pool.hasStatus
    THEN [status |-> ZeroStatus, err |-> "parse"]
    ELSE [status |-> [MachineCount |-> parseMachineCounts(pool.machineCount),
                      UpdatedMachineCount |-> parseMachineCounts(pool.updatedMachineCount),
                      Updating |-> parseConditions(pool.conditions, "Updating"),
                      Degraded |-> parseConditions(pool.conditions, "Degraded")],
          err |-> ""]

(* GetPoolStatus, lines 51-73, on the answer of the dynamic client. *)
GetPoolStatus(answer) ==
    IF answer.err # ""
    THEN [status |-> ZeroStatus, err |-> "get"]
    ELSE parsePoolStatus(answer.object)

(* A stability check that does not look at the Degraded condition. *)
IsPoolStableIgnoresDegraded(answer) ==
    LET got == GetPoolStatus(answer)
    IN IF got.err # ""
       THEN [stable |-> FALSE, err |-> got.err]
       ELSE [stable |-> /\ ~got.status.Updating
                        /\ got.status.UpdatedMachineCount = got.status.MachineCount,
             err |-> ""]

(* What the dynamic client answers to Resource(mcpGVR).List: an error, or  *)
(* the list of the MachineConfigPool objects, of which only the name is    *)
(* read.                                                                   *)
PoolNames == {"master", "worker"}

Item(name) == [name |-> name]

ListAnswers ==
    {[err |-> "unavailable", items |-> <<>>]}
    \cup
    {[err |-> "", items |-> items] :
        items \in {<<>>, <<Item("master")>>,
                   <<Item("master"), Item("worker")>>,
                   <<Item("worker"), Item("master")>>}}

(* A listing that returns the names in the reverse of the order of the     *)
(* list it was given.                                                      *)
ListMachineConfigPoolsReversed(answer) ==
    IF answer.err # ""
    THEN [pools |-> <<>>, err |-> "list"]
    ELSE [pools |-> [k \in DOMAIN answer.items |->
                        answer.items[Len(answer.items) + 1 - k].name],
          err |-> ""]

(* ListMachineConfigPools, lines 235-251. *)
ListMachineConfigPools(answer) ==
    IF answer.err # ""
    THEN [pools |-> <<>>, err |-> "list"]
    ELSE [pools |-> [k \in DOMAIN answer.items |-> answer.items[k].name], err |-> ""]

(* A health check that reports success whatever the listing did. *)
HealthCheckIgnoresError(answer) == ""

(* HealthCheck, lines 279-285. *)
HealthCheck(answer) ==
    IF ListMachineConfigPools(answer).err # "" THEN "health" ELSE ""

(* IsPoolStable, lines 168-190. *)
IsPoolStable(answer) ==
    LET got == GetPoolStatus(answer)
    IN IF got.err # ""
       THEN [stable |-> FALSE, err |-> got.err]
       ELSE [stable |-> /\ ~got.status.Updating
                        /\ ~got.status.Degraded
                        /\ got.status.UpdatedMachineCount = got.status.MachineCount,
             err |-> ""]

----------------------------------------------------------------------------
(* No wait and no direct stability check has been made. *)
IdleWait ==
    [pc |-> "idle", pool |-> "", timeout |-> 0, startedAt |-> 0, deadline |-> 0,
     topDone |-> FALSE, timerAt |-> 0, polls |-> 0, errs |-> 0,
     stable |-> FALSE, updating |-> FALSE, degraded |-> FALSE, err |-> "",
     result |-> ""]

NoProbe ==
    [called |-> FALSE, answer |-> [err |-> "", object |-> NoObject],
     status |-> ZeroStatus, stable |-> FALSE, err |-> ""]

(* No WaitForAllPoolsStable call and no HealthCheck call has been made. *)
NoList == [err |-> "", items |-> <<>>]

IdleAll ==
    [pc |-> "idle", timeout |-> 0, startedAt |-> 0, lists |-> 0, answer |-> NoList,
     pools |-> <<>>, i |-> 0, returned |-> <<>>, result |-> "", failed |-> ""]

NoHealth == [called |-> FALSE, answer |-> NoList, err |-> ""]

(* No cleanup worker has been started: pc is its position, days its        *)
(* retentionDays, pending says that ticker.C holds a tick, stop that       *)
(* stopCh is closed; ticks counts the ticks delivered, taken the ticks     *)
(* received, errs the runs that returned an error, lastErr the last run's  *)
(* result.                                                                 *)
NoSweeper ==
    [pc |-> "off", days |-> 0, pending |-> FALSE, stop |-> FALSE,
     ticks |-> 0, taken |-> 0, errs |-> 0, lastErr |-> ""]

ClientIdle ==
    /\ clock = 0
    /\ ctxDone = FALSE
    /\ wait = IdleWait
    /\ probe = NoProbe
    /\ all = IdleAll
    /\ health = NoHealth
    /\ poolState = [p \in PoolNames |-> "unknown"]
    /\ sweeper = NoSweeper

----------------------------------------------------------------------------
(* models.Incident: the fields the store reads or writes. *)

Incident(id, target, severity, status, createdAt, updatedAt, resolvedAt) ==
    [ID |-> id, Target |-> target, Severity |-> severity, Status |-> status,
     CreatedAt |-> createdAt, UpdatedAt |-> updatedAt, ResolvedAt |-> resolvedAt]

(* The records a caller builds before it calls Create or Update. *)
CallerIncidents ==
    {Incident(id, "ns1", "high", sr[1], ZeroTime, ZeroTime, sr[2]) :
        id \in {EmptyId} \cup Ids,
        sr \in {<<"", NilTime>>, <<IncidentStatusResolved, ZeroTime>>}}
    \cup
    {Incident(id, "", "high", "", ZeroTime, ZeroTime, NilTime) : id \in {EmptyId} \cup Ids}

(* Incident.Validate, the caller-supplied structural check. *)
Validate(inc) == inc.Target # "" /\ inc.Severity # ""

----------------------------------------------------------------------------
(* The text of an incident id.  uuid.New().String() writes the 16 bytes of *)
(* a UUID as 32 lower-case hex digits in groups of 8-4-4-4-12 separated by *)
(* dashes; generateIncidentID keeps the first 8 characters after "inc-".   *)

HexDigits == <<"0", "1", "2", "3", "4", "5", "6", "7",
               "8", "9", "a", "b", "c", "d", "e", "f">>

(* The random (version 4) UUID drawn for the generated id g, as nibbles. *)
UuidNew(g) ==
    [k \in 1..32 |-> IF k = 13 THEN 4
                     ELSE IF k = 17 THEN 8 + (g % 4)
                     ELSE (7 * g + 3 * k) % 16]

UuidString(u) ==
    LET hex(a, b) == [k \in 1..(b - a + 1) |-> HexDigits[u[a + k - 1] + 1]]
    IN hex(1, 8) \o <<"-">> \o hex(9, 12) \o <<"-">> \o hex(13, 16) \o <<"-">>
       \o hex(17, 20) \o <<"-">> \o hex(21, 32)

generateIncidentID(u) == <<"i", "n", "c", "-">> \o SubSeq(UuidString(u), 1, 8)

(* The string an id of the model stands for: the generated ones, and the   *)
(* names callers make up.                                                  *)
IdString(i) ==
    IF i = EmptyId THEN <<>>
    ELSE IF i \in GenIds THEN generateIncidentID(UuidNew(i))
    ELSE <<"m", "y", "-", "i", "d", "-", HexDigits[(i % 16) + 1]>>

----------------------------------------------------------------------------
(* The in-memory map *)

(* The smallest pointer not in use: a fresh allocation. *)
NewObj(h) == CHOOSE o \in Objs \ DOMAIN h : \A q \in Objs \ DOMAIN h : o <= q

(* Records no pointer of the store or of a running call refers to. *)
Collect(h, m, keep) ==
    [o \in {q \in DOMAIN h : q \in keep \/ \E i \in DOMAIN m : m[i] = q} |-> h[o]]

(* What Get, List and Count can see: id -> the record stored under it. *)
Contents(h, m) == [i \in DOMAIN m |-> h[m[i]]]

MapDelete(m, id) == [i \in DOMAIN m \ {id} |-> m[i]]
MapPut(m, id, o) == [i \in DOMAIN m \cup {id} |-> IF i = id THEN o ELSE m[i]]

----------------------------------------------------------------------------
(* Serialization: json.MarshalIndent of the map writes the opening brace,  *)
(* one member per id in increasing key order, and the closing brace.       *)

TokOpen == [tok |-> "{"]
TokClose == [tok |-> "}"]

(* An encoding of the record that leaves its resolution time out. *)
TokMemberOmitsResolvedAt(id, inc) ==
    [tok |-> "member", key |-> id, val |-> [inc EXCEPT !.ResolvedAt = NilTime]]

TokMember(id, inc) == [tok |-> "member", key |-> id, val |-> inc]

RECURSIVE MarshalMembers(_, _)
MarshalMembers(c, ids) ==
    IF ids = {} THEN <<>>
    ELSE LET i == CHOOSE k \in ids : \A j \in ids : k <= j
         IN <<TokMember(i, c[i])>> \o MarshalMembers(c, ids \ {i})

MarshalIndent(c) == <<TokOpen>> \o MarshalMembers(c, DOMAIN c) \o <<TokClose>>

(* json.Valid: a complete object. *)
WellFormed(data) ==
    /\ Len(data) >= 2
    /\ data[1] = TokOpen
    /\ data[Len(data)] = TokClose
    /\ \A k \in 2..(Len(data) - 1) : data[k].tok = "member"

(* json.Unmarshal of a well-formed document: later members win. *)
Unmarshal(data) ==
    LET ks == {data[k].key : k \in 2..(Len(data) - 1)}
        last(i) == CHOOSE k \in 2..(Len(data) - 1) :
                      /\ data[k].key = i
                      /\ \A j \in 2..(Len(data) - 1) : data[j].key = i => j <= k
    IN [i \in ks |-> data[last(i)].val]

----------------------------------------------------------------------------
(* The file system: each path is absent or holds a byte sequence. *)

Absent == [exists |-> FALSE, data |-> <<>>]
File(data) == [exists |-> TRUE, data |-> data]

(* write(2) at offset 0 of n bytes over the old content. *)
Overlay(old, data, n) ==
    SubSeq(data, 1, n) \o (IF Len(old) > n THEN SubSeq(old, n + 1, Len(old)) ELSE <<>>)

----------------------------------------------------------------------------
(* The handlers' in-memory work, as functions of the heap h and the map m. *)

(* A Create that keeps a creation time the caller's record already has. *)
CreateBodyKeepsCreatedAt(h, m, o, g, t) ==
    IF ~Validate(h[o])
    THEN [heap |-> h, incidents |-> m, err |-> "validation"]
    ELSE LET id == IF h[o].ID = EmptyId THEN g ELSE h[o].ID
             rec == [h[o] EXCEPT !.ID = id,
                                 !.CreatedAt = IF @ = ZeroTime THEN t ELSE @,
                                 !.UpdatedAt = t,
                                 !.Status = IF @ = "" THEN IncidentStatusActive ELSE @]
         IN [heap |-> [h EXCEPT ![o] = rec],
             incidents |-> MapPut(m, id, o),
             err |-> ""]

(* Create, lines 68-89: validate, fill in id, timestamps and status, store *)
(* the caller's pointer.  g is the id generateIncidentID returns.          *)
CreateBody(h, m, o, g, t) ==
    IF ~Validate(h[o])
    THEN [heap |-> h, incidents |-> m, err |-> "validation"]
    ELSE LET id == IF h[o].ID = EmptyId THEN g ELSE h[o].ID
             rec == [h[o] EXCEPT !.ID = id,
                                 !.CreatedAt = t,
                                 !.UpdatedAt = t,
                                 !.Status = IF @ = "" THEN IncidentStatusActive ELSE @]
         IN [heap |-> [h EXCEPT ![o] = rec],
             incidents |-> MapPut(m, id, o),
             err |-> ""]

(* Create, line 95: delete(s.incidents, incident.ID). *)
CreateRollback(h, m, o) == MapDelete(m, h[o].ID)

(* An Update that stores the record before it looks the id up. *)
UpdateBodyStoresFirst(h, m, o, t) ==
    IF h[o].ID \notin DOMAIN m
    THEN [heap |-> h, incidents |-> MapPut(m, h[o].ID, o), old |-> 0, err |-> "notfound"]
    ELSE [heap |-> [h EXCEPT ![o].UpdatedAt = t],
          incidents |-> MapPut(m, h[o].ID, o),
          old |-> m[h[o].ID],
          err |-> ""]

(* Update, lines 122-128.  old is the pointer kept for the rollback. *)
UpdateBody(h, m, o, t) ==
    IF h[o].ID \notin DOMAIN m
    THEN [heap |-> h, incidents |-> m, old |-> 0, err |-> "notfound"]
    ELSE [heap |-> [h EXCEPT ![o].UpdatedAt = t],
          incidents |-> MapPut(m, h[o].ID, o),
          old |-> m[h[o].ID],
          err |-> ""]

(* Update, line 134: s.incidents[incident.ID] = oldIncident. *)
UpdateRollback(h, m, o, old) == MapPut(m, h[o].ID, old)

(* Delete, lines 148-153. *)
DeleteBody(m, id) ==
    IF id \notin DOMAIN m
    THEN [incidents |-> m, old |-> 0, err |-> "notfound"]
    ELSE [incidents |-> MapDelete(m, id), old |-> m[id], err |-> ""]

(* A Delete whose rollback forgets to put the removed pointer back. *)
DeleteRollbackDropped(m, id, old) == m

(* Delete, line 159: s.incidents[id] = deleted. *)
DeleteRollback(m, id, old) == MapPut(m, id, old)

(* A cleanup that also evicts what was resolved exactly at the cutoff. *)
ExpiredAtCutoff(inc, cutoffTime) ==
    /\ inc.Status = IncidentStatusResolved
    /\ inc.ResolvedAt # NilTime
    /\ inc.ResolvedAt <= cutoffTime

(* CleanupOldIncidents, lines 311-322. *)
Expired(inc, cutoffTime) ==
    /\ inc.Status = IncidentStatusResolved
    /\ inc.ResolvedAt # NilTime
    /\ inc.ResolvedAt < cutoffTime

CleanupBody(h, m, retentionDays, t) ==
    LET cutoffTime == t - retentionDays * Day
        gone == {i \in DOMAIN m : Expired(h[m[i]], cutoffTime)}
    IN [incidents |-> [i \in DOMAIN m \ gone |-> m[i]],
        deleted |-> Cardinality(gone)]

(* A List that does not look at the status a filter asks for. *)
MatchesIgnoresStatus(inc, filter) ==
    /\ filter.Namespace = "" \/ inc.Target = filter.Namespace
    /\ filter.Severity = "" \/ inc.Severity = filter.Severity

(* List, lines 180-207: filter, sort newest first, truncate. *)
Matches(inc, filter) ==
    /\ filter.Namespace = "" \/ inc.Target = filter.Namespace
    /\ filter.Severity = "" \/ inc.Severity = filter.Severity
    /\ filter.Status = "" \/ inc.Status = filter.Status

(* The orders sort.Slice may leave the matching records in: any order with *)
(* no record strictly newer than one before it (the sort is not stable).   *)
SortedNewestFirst(h, objs) ==
    {s \in [1..Cardinality(objs) -> objs] :
        /\ \A a, b \in DOMAIN s : a # b => s[a] # s[b]
        /\ \A a, b \in DOMAIN s : a < b => ~(h[s[b]].CreatedAt > h[s[a]].CreatedAt)}

Truncate(s, limit) ==
    IF limit > 0 /\ Len(s) > limit THEN SubSeq(s, 1, limit) ELSE s

(* A List that cuts the matches down to the limit before it sorts them. *)
ListResultsTruncatesFirst(h, m, filter) ==
    LET objs == {m[i] : i \in {j \in DOMAIN m : Matches(h[m[j]], filter)}}
        kept == IF filter.Limit > 0 /\ Cardinality(objs) > filter.Limit
                THEN {c \in SUBSET objs : Cardinality(c) = filter.Limit}
                ELSE {objs}
    IN UNION {{[k \in DOMAIN s |-> h[s[k]]] : s \in SortedNewestFirst(h, c)} : c \in kept}

ListResults(h, m, filter) ==
    LET objs == {m[i] : i \in {j \in DOMAIN m : Matches(h[m[j]], filter)}}
    IN {Truncate([k \in DOMAIN s |-> h[s[k]]], filter.Limit) :
            s \in SortedNewestFirst(h, objs)}

ListFilters ==
    {[Namespace |-> ns, Severity |-> sev, Status |-> st, Limit |-> lim] :
        ns \in {"", "ns1"}, sev \in {"", "low"},
        st \in {"", IncidentStatusResolved}, lim \in {0, 1}}

(* LoadFromFile, lines 264-300, into the empty map of a new store. *)
LoadFromFile(file) ==
    IF ~file.exists THEN [err |-> "", contents |-> [i \in {} |-> 0]]
    ELSE IF ~WellFormed(file.data) THEN [err |-> "unmarshal", contents |-> [i \in {} |-> 0]]
    ELSE [err |-> "", contents |-> Unmarshal(file.data)]

----------------------------------------------------------------------------
(* sync.RWMutex: "W" is Lock/Unlock, "R" is RLock/RUnlock. *)

(* A Create that takes the read lock where the code takes the write lock. *)
CreateLockModeShared == "R"

CreateLockMode == "W"
GetLockMode == "R"
UpdateLockMode == "W"

(* A Delete that takes the read lock where the code takes the write lock. *)
DeleteLockModeShared == "R"

DeleteLockMode == "W"
ListLockMode == "R"
CountLockMode == "R"
SaveToFileLockMode == "R"
CleanupLockMode == "W"

CanAcquire(mode, m) ==
    IF mode = "W" THEN m.w = NoProc /\ m.r = {} ELSE m.w = NoProc

Acquire(mode, m, p) ==
    IF mode = "W" THEN [m EXCEPT !.w = p] ELSE [m EXCEPT !.r = @ \cup {p}]

Release(m, p) == [w |-> IF m.w = p THEN NoProc ELSE m.w, r |-> m.r \ {p}]

----------------------------------------------------------------------------
(* The calling goroutines *)

(* The zero ListFilter and the empty map. *)
NoFilter == [Namespace |-> "", Severity |-> "", Status |-> "", Limit |-> 0]
EmptyMap == [i \in {} |-> 0]

(* Locals of a call: its arguments (inc, id, days, filter), the values it  *)
(* keeps (old, gen, t, deleted, data, fd), the error of its persist (perr), *)
(* the error of its os.Remove (rmErr) and what it returns (err, res).  preHeap, preMap and preFile record the *)
(* state the call found when it took the lock; only the properties read    *)
(* them.                                                                   *)
IdleLoc ==
    [op |-> "", inc |-> 0, id |-> 0, old |-> 0, days |-> 0, gen |-> 0, t |-> 0,
     deleted |-> 0, data |-> <<>>, fd |-> "none", perr |-> "", rmErr |-> "",
     err |-> "",
     res |-> <<>>, filter |-> NoFilter,
     preHeap |-> EmptyMap, preMap |-> EmptyMap, preFile |-> Absent]

Mutators == {"Create", "Update", "Delete", "Cleanup"}
Readers == {"Get", "List", "Count"}
PersistPcs == {"open", "write", "rename", "remove"}

Range(m) == {m[i] : i \in DOMAIN m}

(* Pointers held by the calls in flight other than p. *)
HeldBy(l, ps) == {l[q].inc : q \in ps} \cup {l[q].old : q \in ps}

(* Idle goroutines are interchangeable: the first idle one makes the call. *)
CanCall(p) ==
    /\ pc[p] = "idle"
    /\ ncalls < MaxCalls
    /\ \A q \in Procs : q < p => pc[q] # "idle"

(* The pointer a caller passes: a record it has just built, or a pointer   *)
(* it got back from Get, List or Create.                                   *)
Args == [new : {TRUE}, rec : CallerIncidents] \cup [new : {FALSE}, ptr : Range(incidents)]
ArgObj(a) == IF a.new THEN NewObj(heap) ELSE a.ptr
ArgHeap(a) ==
    IF a.new
    THEN [o \in DOMAIN heap \cup {NewObj(heap)} |->
            IF o = NewObj(heap) THEN a.rec ELSE heap[o]]
    ELSE heap

(* NewIncidentStoreWithPersistence, lines 37-60: a load error is logged    *)
(* and the store starts empty.  Every loaded record is a new allocation.   *)
LoadedObj(c, i) == Cardinality({j \in DOMAIN c : j <= i})

NewIncidentStoreWithPersistence(file) ==
    LET c == LoadFromFile(file).contents
    IN [heap |-> [o \in {LoadedObj(c, i) : i \in DOMAIN c} |->
                    c[CHOOSE i \in DOMAIN c : LoadedObj(c, i) = o]],
        incidents |-> [i \in DOMAIN c |-> LoadedObj(c, i)]]

(* The error NewIncidentStoreWithPersistence returns with the store, given *)
(* the error of its LoadFromFile: line 57 logs it and line 60 returns nil.  *)
ConstructError(loadErr) == ""

(* NewIncidentStore, lines 28-34. *)
NewIncidentStore == [heap |-> EmptyMap, incidents |-> EmptyMap]

Construct(path, file) ==
    IF path = "" THEN NewIncidentStore ELSE NewIncidentStoreWithPersistence(file)

(* The files an earlier run of the engine may have left behind: none, or   *)
(* the serialization of the store it had.                                  *)
EarlierStores ==
    {EmptyMap,
     1 :> Incident(1, "ns1", "high", IncidentStatusResolved, StartTime, StartTime, ZeroTime)}

EarlierFiles == {Absent} \cup {File(MarshalIndent(c)) : c \in EarlierStores \ {EmptyMap}}

(* The state after construction. *)
Init ==
    /\ now = StartTime
    /\ filePath \in {"", PersistFileName}
    /\ fs \in [file : IF filePath = "" THEN {Absent} ELSE EarlierFiles, tmp : {Absent}]
    /\ boot = IF filePath = "" THEN LoadFromFile(Absent) ELSE LoadFromFile(fs.file)
    /\ heap = Construct(filePath, fs.file).heap
    /\ incidents = Construct(filePath, fs.file).incidents
    /\ mu = [w |-> NoProc, r |-> {}]
    /\ pc = [p \in Procs |-> "idle"]
    /\ loc = [p \in Procs |-> IdleLoc]
    /\ ncalls = 0
    /\ committed = IF fs.file.exists THEN {fs.file.data} ELSE {}
    /\ ClientIdle

(* time.Now(): the clock never runs backwards. *)
TimeNow == now..MaxTime

(* After the in-memory work: return, or start saveToFileUnsafe (line 236   *)
(* marshals the map as it is now).                                         *)
Proceed(p, l, h, m, persist) ==
    /\ heap' = h
    /\ incidents' = m
    /\ IF persist
       THEN /\ pc' = [pc EXCEPT ![p] = "open"]
            /\ loc' = [loc EXCEPT ![p] = [l EXCEPT !.data = MarshalIndent(Contents(h, m))]]
       ELSE /\ pc' = [pc EXCEPT ![p] = "ret"]
            /\ loc' = [loc EXCEPT ![p] = l]

Enter(op, h, t) ==
    [IdleLoc EXCEPT !.op = op, !.t = t,
                    !.preHeap = h, !.preMap = incidents, !.preFile = fs.file]

(* Create, lines 64-93. *)
CreateCall(p) ==
    /\ CanCall(p)
    /\ CanAcquire(CreateLockMode, mu)
    /\ \E a \in Args, g \in GenIds, t \in TimeNow :
        LET o == ArgObj(a)
            h0 == ArgHeap(a)
            b == CreateBody(h0, incidents, o, g, t)
            l == [Enter("Create", h0, t) EXCEPT
                     !.inc = o, !.err = b.err,
                     !.gen = IF h0[o].ID = EmptyId THEN g ELSE 0]
        IN /\ Proceed(p, l, b.heap, b.incidents, b.err = "" /\ filePath # "")
           /\ now' = IF b.err = "" THEN t ELSE now
    /\ mu' = Acquire(CreateLockMode, mu, p)
    /\ ncalls' = ncalls + 1
    /\ UNCHANGED <<filePath, fs, boot, committed>>
    /\ UNCHANGED clientVars

(* Update, lines 117-132. *)
UpdateCall(p) ==
    /\ CanCall(p)
    /\ CanAcquire(UpdateLockMode, mu)
    /\ \E a \in Args, t \in TimeNow :
        LET o == ArgObj(a)
            h0 == ArgHeap(a)
            b == UpdateBody(h0, incidents, o, t)
            l == [Enter("Update", h0, t) EXCEPT
                     !.inc = o, !.old = b.old, !.err = b.err]
        IN /\ Proceed(p, l, b.heap, b.incidents, b.err = "" /\ filePath # "")
           /\ now' = IF b.err = "" THEN t ELSE now
    /\ mu' = Acquire(UpdateLockMode, mu, p)
    /\ ncalls' = ncalls + 1
    /\ UNCHANGED <<filePath, fs, boot, committed>>
    /\ UNCHANGED clientVars

(* Delete, lines 143-157. *)
DeleteCall(p) ==
    /\ CanCall(p)
    /\ CanAcquire(DeleteLockMode, mu)
    /\ \E id \in Ids :
        LET b == DeleteBody(incidents, id)
            l == [Enter("Delete", heap, now) EXCEPT
                     !.id = id, !.old = b.old, !.err = b.err]
        IN Proceed(p, l, heap, b.incidents, b.err = "" /\ filePath # "")
    /\ mu' = Acquire(DeleteLockMode, mu, p)
    /\ ncalls' = ncalls + 1
    /\ UNCHANGED <<now, filePath, fs, boot, committed>>
    /\ UNCHANGED clientVars

RetentionChoices == {0, 1}

(* CleanupOldIncidents, lines 303-326; a retention of zero or less returns *)
(* before the lock is taken.                                               *)
CleanupCall(p) ==
    /\ CanCall(p)
    /\ \E retentionDays \in RetentionChoices :
        IF retentionDays <= 0
        THEN /\ pc' = [pc EXCEPT ![p] = "ret"]
             /\ loc' = [loc EXCEPT ![p] =
                          [Enter("Cleanup", heap, now) EXCEPT !.days = retentionDays]]
             /\ UNCHANGED <<now, heap, incidents, mu>>
        ELSE /\ CanAcquire(CleanupLockMode, mu)
             /\ mu' = Acquire(CleanupLockMode, mu, p)
             /\ \E t \in TimeNow :
                  LET b == CleanupBody(heap, incidents, retentionDays, t)
                      l == [Enter("Cleanup", heap, t) EXCEPT
                               !.days = retentionDays, !.deleted = b.deleted]
                  IN /\ Proceed(p, l, heap, b.incidents, b.deleted > 0 /\ filePath # "")
                     /\ now' = t
    /\ ncalls' = ncalls + 1
    /\ UNCHANGED <<filePath, fs, boot, committed>>
    /\ UNCHANGED clientVars

(* SaveToFile, lines 223-233. *)
SaveToFileCall(p) ==
    /\ CanCall(p)
    /\ CanAcquire(SaveToFileLockMode, mu)
    /\ mu' = Acquire(SaveToFileLockMode, mu, p)
    /\ LET l == [Enter("SaveToFile", heap, now) EXCEPT
                    !.err = IF filePath = "" THEN "nopath" ELSE ""]
       IN Proceed(p, l, heap, incidents, filePath # "")
    /\ ncalls' = ncalls + 1
    /\ UNCHANGED <<now, filePath, fs, boot, committed>>
    /\ UNCHANGED clientVars

(* Get, lines 104-113. *)
GetCall(p) ==
    /\ CanCall(p)
    /\ CanAcquire(GetLockMode, mu)
    /\ mu' = Acquire(GetLockMode, mu, p)
    /\ \E id \in Ids :
        LET l == [Enter("Get", heap, now) EXCEPT
                    !.id = id,
                    !.err = IF id \in DOMAIN incidents THEN "" ELSE "notfound",
                    !.res = IF id \in DOMAIN incidents THEN <<heap[incidents[id]]>> ELSE <<>>]
        IN Proceed(p, l, heap, incidents, FALSE)
    /\ ncalls' = ncalls + 1
    /\ UNCHANGED <<now, filePath, fs, boot, committed>>
    /\ UNCHANGED clientVars

(* List, lines 176-208. *)
ListCall(p) ==
    /\ CanCall(p)
    /\ CanAcquire(ListLockMode, mu)
    /\ mu' = Acquire(ListLockMode, mu, p)
    /\ \E filter \in ListFilters :
        \E results \in ListResults(heap, incidents, filter) :
            Proceed(p, [Enter("List", heap, now) EXCEPT !.filter = filter, !.res = results],
                    heap, incidents, FALSE)
    /\ ncalls' = ncalls + 1
    /\ UNCHANGED <<now, filePath, fs, boot, committed>>
    /\ UNCHANGED clientVars

(* Count, lines 211-215. *)
CountCall(p) ==
    /\ CanCall(p)
    /\ CanAcquire(CountLockMode, mu)
    /\ mu' = Acquire(CountLockMode, mu, p)
    /\ Proceed(p, [Enter("Count", heap, now) EXCEPT
                      !.res = <<Cardinality(DOMAIN incidents)>>],
               heap, incidents, FALSE)
    /\ ncalls' = ncalls + 1
    /\ UNCHANGED <<now, filePath, fs, boot, committed>>
    /\ UNCHANGED clientVars

----------------------------------------------------------------------------
(* saveToFileUnsafe, lines 241-254, one system call per step.  A file      *)
(* descriptor follows its file: fd is "tmp" or "file" while the file it    *)
(* was opened on is linked under that path, "orphan" once it is unlinked.  *)

ShiftFds(l, from, to) ==
    [q \in Procs |-> IF l[q].fd = from THEN [l[q] EXCEPT !.fd = to] ELSE l[q]]

(* A cleanup that puts the evicted incidents back when its persist fails. *)
AfterSaveCleanupRestores(l, h, m, perr) ==
    IF perr = "" THEN m
    ELSE IF l.op = "Create" THEN CreateRollback(h, m, l.inc)
    ELSE IF l.op = "Update" THEN UpdateRollback(h, m, l.inc, l.old)
    ELSE IF l.op = "Delete" THEN DeleteRollback(m, l.id, l.old)
    ELSE IF l.op = "Cleanup" THEN l.preMap
    ELSE m

(* The handler's code after saveToFileUnsafe returned perr: the rollback   *)
(* of lines 94-96, 133-135 and 158-160, none for lines 326-328 and 226.    *)
AfterSave(l, h, m, perr) ==
    IF perr = "" THEN m
    ELSE IF l.op = "Create" THEN CreateRollback(h, m, l.inc)
    ELSE IF l.op = "Update" THEN UpdateRollback(h, m, l.inc, l.old)
    ELSE IF l.op = "Delete" THEN DeleteRollback(m, l.id, l.old)
    ELSE m

Finish(p, ls, perr) ==
    /\ incidents' = AfterSave(loc[p], heap, incidents, perr)
    /\ loc' = [ls EXCEPT ![p].fd = "none", ![p].perr = perr,
                         ![p].err = IF perr = "" THEN "" ELSE "persist"]
    /\ pc' = [pc EXCEPT ![p] = "ret"]

(* os.WriteFile opens the temp file with O_WRONLY|O_CREATE|O_TRUNC. *)
OpenTmp(p) ==
    /\ pc[p] = "open"
    /\ \/ /\ fs' = [fs EXCEPT !.tmp = File(<<>>)]
          /\ loc' = [loc EXCEPT ![p].fd = "tmp"]
          /\ pc' = [pc EXCEPT ![p] = "write"]
          /\ UNCHANGED incidents
       \/ /\ Finish(p, loc, "write")
          /\ UNCHANGED fs
    /\ UNCHANGED <<now, filePath, heap, mu, ncalls, boot, committed>>
    /\ UNCHANGED clientVars

(* os.WriteFile writes the data and closes; a failed write leaves the      *)
(* first n bytes behind.                                                   *)
WriteLens(data) == {Len(data) - 1, Len(data)}

WriteAt(f, fd, data, n) ==
    IF fd = "tmp" THEN [f EXCEPT !.tmp.data = Overlay(@, data, n)]
    ELSE IF fd = "file" THEN [f EXCEPT !.file.data = Overlay(@, data, n)]
    ELSE f

WriteTmp(p) ==
    /\ pc[p] = "write"
    /\ \E n \in WriteLens(loc[p].data) :
        /\ fs' = WriteAt(fs, loc[p].fd, loc[p].data, n)
        /\ IF n = Len(loc[p].data)
           THEN /\ loc' = [loc EXCEPT ![p].fd = "none"]
                /\ pc' = [pc EXCEPT ![p] = "rename"]
                /\ UNCHANGED incidents
           ELSE Finish(p, loc, "write")
    /\ UNCHANGED <<now, filePath, heap, mu, ncalls, boot, committed>>
    /\ UNCHANGED clientVars

(* os.Rename(tempFile, s.filePath): atomic, fails if the temp file is gone. *)
RenameTmp(p) ==
    /\ pc[p] = "rename"
    /\ \/ /\ fs.tmp.exists
          /\ fs' = [file |-> fs.tmp, tmp |-> Absent]
          /\ Finish(p, ShiftFds(ShiftFds(loc, "file", "orphan"), "tmp", "file"), "")
          /\ committed' = committed \cup {loc[p].data}
       \/ /\ loc' = [loc EXCEPT ![p].perr = "rename"]
          /\ pc' = [pc EXCEPT ![p] = "remove"]
          /\ UNCHANGED <<fs, incidents, committed>>
    /\ UNCHANGED <<now, filePath, heap, mu, ncalls, boot>>
    /\ UNCHANGED clientVars

(* A persist that returns the rename error and leaves the temp file. *)
RemoveTmpSkipped(p) ==
    /\ pc[p] = "remove"
    /\ Finish(p, loc, "rename")
    /\ UNCHANGED fs
    /\ UNCHANGED <<now, filePath, heap, mu, ncalls, boot, committed>>
    /\ UNCHANGED clientVars

(* os.Remove(tempFile) after a failed rename; its own failure is logged. *)
RemoveTmp(p) ==
    /\ pc[p] = "remove"
    /\ \/ /\ fs.tmp.exists
          /\ fs' = [fs EXCEPT !.tmp = Absent]
          /\ Finish(p, ShiftFds(loc, "tmp", "orphan"), "rename")
       \/ /\ Finish(p, [loc EXCEPT ![p].rmErr = "remove"], "rename")
          /\ UNCHANGED fs
    /\ UNCHANGED <<now, filePath, heap, mu, ncalls, boot, committed>>
    /\ UNCHANGED clientVars

(* The deferred Unlock/RUnlock and the return to the caller. *)
Return(p) ==
    /\ pc[p] = "ret"
    /\ mu' = Release(mu, p)
    /\ pc' = [pc EXCEPT ![p] = "idle"]
    /\ loc' = [loc EXCEPT ![p] = IdleLoc]
    /\ heap' = Collect(heap, incidents, HeldBy(loc, Procs \ {p}))
    /\ UNCHANGED <<now, filePath, incidents, fs, ncalls, boot, committed>>
    /\ UNCHANGED clientVars

(* The process dies at any point and a new one constructs its store. *)
Restart ==
    /\ ncalls < MaxCalls
    /\ ncalls' = ncalls + 1
    /\ heap' = Construct(filePath, fs.file).heap
    /\ incidents' = Construct(filePath, fs.file).incidents
    /\ boot' = IF filePath = "" THEN LoadFromFile(Absent) ELSE LoadFromFile(fs.file)
    /\ mu' = [w |-> NoProc, r |-> {}]
    /\ pc' = [p \in Procs |-> "idle"]
    /\ loc' = [p \in Procs |-> IdleLoc]
    /\ UNCHANGED <<now, filePath, fs, committed>>
    /\ UNCHANGED clientVars

Next ==
    \/ Restart
    \/ \E p \in Procs :
        \/ CreateCall(p)
        \/ UpdateCall(p)
        \/ DeleteCall(p)
        \/ CleanupCall(p)
        \/ SaveToFileCall(p)
        \/ GetCall(p)
        \/ ListCall(p)
        \/ CountCall(p)
        \/ OpenTmp(p)
        \/ WriteTmp(p)
        \/ RenameTmp(p)
        \/ RemoveTmp(p)
        \/ Return(p)

Spec == Init /\ [][Next]_vars

----------------------------------------------------------------------------
(* Vocabulary of the properties *)

Cur == Contents(heap, incidents)
Pre(p) == Contents(loc[p].preHeap, loc[p].preMap)

(* p has run the handler op to its return statement and still holds the    *)
(* lock it took.                                                           *)
AtRet(p, op) == pc[p] = "ret" /\ loc[p].op = op

(* p's persist failed: saveToFileUnsafe returned an error. *)
SaveFailed(p) == loc[p].perr # ""

(* The id the record passed to Create or Update carries. *)
ArgId(p) == heap[loc[p].inc].ID

Quiescent == \A p \in Procs : pc[p] = "idle"

(* The file, read back as LoadFromFile reads it, is the in-memory map. *)
FileEncodes(file, c) == LoadFromFile(file) = [err |-> "", contents |-> c]

----------------------------------------------------------------------------
(* C1: when the persist step of Create fails, Create returns an error and  *)
(* the in-memory map is what it was before the call, for every valid       *)
(* incident: with an empty id, an unused id or an id already stored.       *)
C1_CreateRollbackRestoresMap ==
    \A p \in Procs :
        (AtRet(p, "Create") /\ filePath # "" /\ SaveFailed(p))
            => (loc[p].err # "" /\ Cur = Pre(p))

(* C2: when the persist step of Update fails, Update returns an error and  *)
(* every stored record, the updated one included, has the field values it  *)
(* had before the call, also when the caller passed the stored record.     *)
C2_UpdateRollbackRestoresRecord ==
    \A p \in Procs :
        (AtRet(p, "Update") /\ SaveFailed(p))
            => (loc[p].err # "" /\ Cur = Pre(p))

(* C3: when the persist step of Delete fails, Delete returns an error and  *)
(* the removed record is back under its id: same ids, same records, same   *)
(* count as before the call.                                               *)
C3_DeleteRollbackReinserts ==
    \A p \in Procs :
        (AtRet(p, "Delete") /\ SaveFailed(p))
            => /\ loc[p].err = "persist"
               /\ loc[p].id \in DOMAIN incidents
               /\ incidents[loc[p].id] = loc[p].preMap[loc[p].id]
               /\ Cur = Pre(p)
               /\ Cardinality(DOMAIN incidents) = Cardinality(DOMAIN loc[p].preMap)

C3_Witness ==
    \E p \in Procs :
        /\ AtRet(p, "Delete") /\ SaveFailed(p)
        /\ loc[p].id \in DOMAIN loc[p].preMap

----------------------------------------------------------------------------
(* The ledger used through Create, Update and Delete only, with            *)
(* persistence enabled.                                                    *)

InitMutations == Init /\ filePath # ""

NextMutations ==
    \E p \in Procs :
        \/ CreateCall(p)
        \/ UpdateCall(p)
        \/ DeleteCall(p)
        \/ OpenTmp(p)
        \/ WriteTmp(p)
        \/ RenameTmp(p)
        \/ RemoveTmp(p)
        \/ Return(p)

SpecMutations == InitMutations /\ [][NextMutations]_vars

(* C4: starting with a file that encodes the map, whenever no Create,      *)
(* Update or Delete is in progress the file encodes exactly the in-memory  *)
(* map, whichever persist steps failed.                                    *)
C4_MemoryAndDiskAgree == Quiescent => FileEncodes(fs.file, Cur)

(* C5: at every step, crash or I/O failure of a persist, incidents.json is *)
(* absent or holds the complete serialization that some successful persist *)
(* committed, never a partial or mixed one.                                *)
C5_FileNeverPartial == fs.file.exists => fs.file.data \in committed

----------------------------------------------------------------------------
(* What a mutating call leaves behind when it runs alone on the state it   *)
(* found, given the outcome of its persist step.                           *)

SerialResult(h, m, file, saved) ==
    [contents |-> Contents(h, m),
     file |-> IF saved THEN File(MarshalIndent(Contents(h, m))) ELSE file]

SerialCreate(l) ==
    LET b == CreateBody(l.preHeap, l.preMap, l.inc, l.gen, l.t)
    IN IF b.err # "" THEN SerialResult(l.preHeap, l.preMap, l.preFile, FALSE)
       ELSE IF filePath = "" THEN SerialResult(b.heap, b.incidents, l.preFile, FALSE)
       ELSE IF l.perr = "" THEN SerialResult(b.heap, b.incidents, l.preFile, TRUE)
       ELSE SerialResult(b.heap, CreateRollback(b.heap, b.incidents, l.inc), l.preFile, FALSE)

SerialUpdate(l) ==
    LET b == UpdateBody(l.preHeap, l.preMap, l.inc, l.t)
    IN IF b.err # "" THEN SerialResult(l.preHeap, l.preMap, l.preFile, FALSE)
       ELSE IF filePath = "" THEN SerialResult(b.heap, b.incidents, l.preFile, FALSE)
       ELSE IF l.perr = "" THEN SerialResult(b.heap, b.incidents, l.preFile, TRUE)
       ELSE SerialResult(b.heap, UpdateRollback(b.heap, b.incidents, l.inc, b.old),
                         l.preFile, FALSE)

SerialDelete(l) ==
    LET b == DeleteBody(l.preMap, l.id)
    IN IF b.err # "" THEN SerialResult(l.preHeap, l.preMap, l.preFile, FALSE)
       ELSE IF filePath = "" THEN SerialResult(l.preHeap, b.incidents, l.preFile, FALSE)
       ELSE IF l.perr = "" THEN SerialResult(l.preHeap, b.incidents, l.preFile, TRUE)
       ELSE SerialResult(l.preHeap, DeleteRollback(b.incidents, l.id, b.old),
                         l.preFile, FALSE)

SerialCleanup(l) ==
    LET b == CleanupBody(l.preHeap, l.preMap, l.days, l.t)
    IN SerialResult(l.preHeap, b.incidents, l.preFile,
                    b.deleted > 0 /\ filePath # "" /\ l.perr = "")

SerialRun(l) ==
    IF l.op = "Create" THEN SerialCreate(l)
    ELSE IF l.op = "Update" THEN SerialUpdate(l)
    ELSE IF l.op = "Delete" THEN SerialDelete(l)
    ELSE SerialCleanup(l)

(* p is inside the check-modify-persist-rollback sequence of a mutation. *)
InSequence(p) ==
    /\ loc[p].op \in Mutators
    /\ pc[p] \in PersistPcs \cup {"ret"}
    /\ ~(loc[p].op = "Cleanup" /\ loc[p].days <= 0)

(* C6: the sequences of concurrent Create, Update, Delete and              *)
(* CleanupOldIncidents calls never overlap, and each call leaves the map   *)
(* and the file exactly as it would running alone on the state it found    *)
(* when it took the lock: the calls take effect in one total order.        *)
C6_MutationsSerialize ==
    \A p \in Procs :
        InSequence(p) =>
            /\ \A q \in Procs \ {p} : ~InSequence(q) /\ mu.w # q /\ q \notin mu.r
            /\ pc[p] = "ret" =>
                /\ Cur = SerialRun(loc[p]).contents
                /\ fs.file = SerialRun(loc[p]).file

C6_Witness ==
    \E p \in Procs :
        /\ AtRet(p, "Delete") /\ loc[p].err = "" /\ filePath # ""
        /\ ncalls >= 2
        /\ Cur # Pre(p)
        /\ fs.file # loc[p].preFile

(* p is a mutation whose in-memory change is made and whose persist has    *)
(* not completed.                                                          *)
Dirty(p) == loc[p].op \in Mutators /\ pc[p] \in PersistPcs

(* What the reader p returns is what the map holds. *)
ReadsCurrent(p) ==
    IF loc[p].op = "Count" THEN loc[p].res = <<Cardinality(DOMAIN incidents)>>
    ELSE IF loc[p].op = "Get"
         THEN loc[p].res = IF loc[p].id \in DOMAIN incidents THEN <<Cur[loc[p].id]>> ELSE <<>>
    ELSE loc[p].res \in ListResults(heap, incidents, loc[p].filter)

(* C7: while a Get, List or Count holds its result, no Create, Update or   *)
(* Delete is between its in-memory change and the end of its persist, and  *)
(* the result is that of the current map: a reader never sees a change     *)
(* that a failed persist takes back.                                       *)
C7_ReadersSeeCommitted ==
    \A p \in Procs :
        (pc[p] = "ret" /\ loc[p].op \in Readers)
            => /\ \A q \in Procs : ~Dirty(q)
               /\ ReadsCurrent(p)

C7_Witness ==
    \E p \in Procs :
        /\ AtRet(p, "Count")
        /\ fs.tmp.exists
        /\ loc[p].res = <<1>>

(* C8: the incidents file and its temporary file are written only under    *)
(* the exclusive lock, so at most one persist is in progress at any time.  *)
C8_PersistUnderExclusiveLock ==
    /\ \A p \in Procs : pc[p] \in PersistPcs => mu.w = p
    /\ Cardinality({p \in Procs : pc[p] \in PersistPcs}) <= 1

(* C9: in a store that started empty, every incident in the map satisfies  *)
(* the validation predicate.                                               *)
C9_StoredIncidentsValid ==
    DOMAIN boot.contents = {} => \A i \in DOMAIN incidents : Validate(Cur[i])

(* C10: a successful Update leaves the stored createdAt of its id as it    *)
(* was, whatever createdAt the caller's record carries, and sets the       *)
(* stored updatedAt to the time of the call.                               *)
C10_UpdateKeepsCreatedAt ==
    \A p \in Procs :
        (AtRet(p, "Update") /\ loc[p].err = "")
            => /\ Cur[ArgId(p)].CreatedAt = Pre(p)[ArgId(p)].CreatedAt
               /\ Cur[ArgId(p)].UpdatedAt = loc[p].t

----------------------------------------------------------------------------
(* The step in which p runs a handler: from the call to the return         *)
(* statement, or to the start of its persist.                              *)
Runs(p) == pc[p] = "idle" /\ pc'[p] # "idle"

(* The errors a handler returns before it has changed anything. *)
EarlyErrors == {"notfound", "validation"}

(* C11: Get, Update and Delete on an id that is not stored return the      *)
(* not-found error and Create of an invalid incident returns the           *)
(* validation error; the handler that returns either leaves the map, the   *)
(* stored records and both files as they were and goes to its return       *)
(* without starting a persist.                                             *)
C11_EarlyErrorsChangeNothing ==
    [][\A p \in Procs :
          Runs(p) =>
            /\ (loc'[p].op \in {"Get", "Delete"} /\ loc'[p].id \notin DOMAIN incidents)
                    => loc'[p].err = "notfound"
            /\ (loc'[p].op = "Update" /\ heap'[loc'[p].inc].ID \notin DOMAIN incidents)
                    => loc'[p].err = "notfound"
            /\ (loc'[p].op = "Create" /\ ~Validate(heap'[loc'[p].inc]))
                    => loc'[p].err = "validation"
            /\ loc'[p].err \in EarlyErrors
                    => /\ incidents' = incidents
                       /\ Contents(heap', incidents') = Cur
                       /\ fs' = fs
                       /\ pc'[p] = "ret"
                       /\ loc'[p].data = <<>>]_vars

C11_Witness ==
    \E p \in Procs :
        /\ AtRet(p, "Update") /\ loc[p].err = "notfound"
        /\ filePath # "" /\ DOMAIN incidents # {}
        /\ heap[loc[p].inc].ID \notin DOMAIN incidents

----------------------------------------------------------------------------
(* The text matches inc-[0-9a-f]{8}. *)
HasGeneratedForm(str) ==
    /\ Len(str) = 12
    /\ SubSeq(str, 1, 4) = <<"i", "n", "c", "-">>
    /\ \A k \in 5..12 : \E d \in DOMAIN HexDigits : str[k] = HexDigits[d]

(* The record the caller passed to Create or Update, as it was passed. *)
ArgBefore(p) == loc[p].preHeap[loc[p].inc]

(* C12: at the return of a successful Create the map holds the caller's    *)
(* incident under its id, which is what Get of that id returns; an empty   *)
(* id has become a generated one of the form inc- plus 8 hex digits and a  *)
(* given id is kept; an empty status has become active and a given status  *)
(* is kept; createdAt and updatedAt are both the time of the call,         *)
(* whatever timestamps the caller's record carried.                        *)
C12_CreateStoresWithDefaults ==
    \A p \in Procs :
        (AtRet(p, "Create") /\ loc[p].err = "")
            => /\ ArgId(p) \in DOMAIN incidents
               /\ incidents[ArgId(p)] = loc[p].inc
               /\ Cur[ArgId(p)].ID = ArgId(p)
               /\ IF ArgBefore(p).ID = EmptyId
                  THEN /\ ArgId(p) = loc[p].gen
                       /\ HasGeneratedForm(IdString(ArgId(p)))
                  ELSE ArgId(p) = ArgBefore(p).ID
               /\ Cur[ArgId(p)].Status =
                     IF ArgBefore(p).Status = "" THEN IncidentStatusActive
                     ELSE ArgBefore(p).Status
               /\ Cur[ArgId(p)].CreatedAt = loc[p].t
               /\ Cur[ArgId(p)].UpdatedAt = loc[p].t
               /\ loc[p].t = now

C12_Witness ==
    \E p \in Procs :
        /\ AtRet(p, "Create") /\ loc[p].err = ""
        /\ ArgBefore(p).ID = EmptyId
        /\ ArgBefore(p).Status = ""
        /\ loc[p].t > StartTime
        /\ filePath # ""

----------------------------------------------------------------------------
(* The stored ids whose record has, for every predicate the filter sets,   *)
(* the value the filter asks for.                                          *)
Wanted(c, f) ==
    {i \in DOMAIN c :
        /\ f.Namespace # "" => c[i].Target = f.Namespace
        /\ f.Severity # "" => c[i].Severity = f.Severity
        /\ f.Status # "" => c[i].Status = f.Status}

(* C13: List takes the shared lock and changes neither the map, the        *)
(* records nor the files; when the limit is zero or less, or no more       *)
(* incidents match than the limit allows, what it returns is exactly the   *)
(* stored incidents that satisfy every predicate the filter sets, each     *)
(* once; a filter that sets none returns every stored incident.            *)
C13_ListReturnsExactlyMatches ==
    [][\A p \in Procs :
          (Runs(p) /\ loc'[p].op = "List") =>
            LET f == loc'[p].filter
                res == loc'[p].res
                want == Wanted(Cur, f)
            IN /\ incidents' = incidents /\ heap' = heap /\ fs' = fs
               /\ pc'[p] = "ret"
               /\ (f.Limit <= 0 \/ Cardinality(want) <= f.Limit) =>
                    /\ Len(res) = Cardinality(want)
                    /\ {res[k] : k \in DOMAIN res} = {Cur[i] : i \in want}
                    /\ \A a, b \in DOMAIN res : a # b => res[a] # res[b]
                    /\ f = [f EXCEPT !.Namespace = "", !.Severity = "", !.Status = ""]
                          => Len(res) = Cardinality(DOMAIN incidents)]_vars

C13_Witness ==
    \E p \in Procs :
        /\ AtRet(p, "List")
        /\ Cardinality(DOMAIN incidents) = 2
        /\ loc[p].filter.Status = IncidentStatusResolved
        /\ loc[p].filter.Namespace = "ns1"
        /\ loc[p].filter.Limit = 0
        /\ Len(loc[p].res) = 1

----------------------------------------------------------------------------
(* C14: what List returns is ordered by createdAt, newest first, equal     *)
(* times in any order; when the limit is positive and more incidents match *)
(* than it allows, exactly limit incidents are returned, all of them       *)
(* matches, and none of the matches left out is newer than a returned one. *)
C14_ListNewestFirstThenLimit ==
    \A p \in Procs :
        AtRet(p, "List") =>
            LET f == loc[p].filter
                res == loc[p].res
                want == Wanted(Cur, f)
                returned == {res[k] : k \in DOMAIN res}
            IN /\ \A a, b \in DOMAIN res : a < b => res[a].CreatedAt >= res[b].CreatedAt
               /\ (f.Limit > 0 /\ Cardinality(want) > f.Limit) =>
                    /\ Len(res) = f.Limit
                    /\ Cardinality(returned) = f.Limit
                    /\ returned \subseteq {Cur[i] : i \in want}
                    /\ \A i \in want : Cur[i] \notin returned =>
                          \A k \in DOMAIN res : res[k].CreatedAt >= Cur[i].CreatedAt

C14_Witness ==
    \E p \in Procs :
        /\ AtRet(p, "List")
        /\ loc[p].filter.Limit = 1
        /\ Cardinality(Wanted(Cur, loc[p].filter)) = 2
        /\ \E i, j \in DOMAIN Cur : Cur[i].CreatedAt < Cur[j].CreatedAt
        /\ Len(loc[p].res) = 1

----------------------------------------------------------------------------
(* The retention sweep on the stores an earlier run may have left in the   *)
(* file: under every id no record or one that is active or resolved, with  *)
(* or without a resolution time, resolved long ago or just now, created    *)
(* long ago or just now.                                                   *)

RetentionKinds ==
    {<<IncidentStatusActive, NilTime>>,
     <<IncidentStatusActive, ZeroTime>>,
     <<IncidentStatusResolved, NilTime>>,
     <<IncidentStatusResolved, ZeroTime>>,
     <<IncidentStatusResolved, StartTime>>} \X {ZeroTime, StartTime}

RetentionStores ==
    UNION {[ids -> RetentionKinds] : ids \in SUBSET Ids}

RetentionFile(kinds) ==
    File(MarshalIndent([i \in DOMAIN kinds |->
            Incident(i, "ns1", "high", kinds[i][1][1],
                     kinds[i][2], kinds[i][2], kinds[i][1][2])]))

InitRetention ==
    /\ now = StartTime
    /\ filePath = PersistFileName
    /\ fs \in [file : {RetentionFile(kinds) : kinds \in RetentionStores}, tmp : {Absent}]
    /\ boot = LoadFromFile(fs.file)
    /\ heap = Construct(filePath, fs.file).heap
    /\ incidents = Construct(filePath, fs.file).incidents
    /\ mu = [w |-> NoProc, r |-> {}]
    /\ pc = [p \in Procs |-> "idle"]
    /\ loc = [p \in Procs |-> IdleLoc]
    /\ ncalls = 0
    /\ committed = {fs.file.data}
    /\ ClientIdle

NextRetention ==
    \E p \in Procs :
        \/ CleanupCall(p)
        \/ OpenTmp(p)
        \/ WriteTmp(p)
        \/ RenameTmp(p)
        \/ RemoveTmp(p)
        \/ Return(p)

SpecRetention == InitRetention /\ [][NextRetention]_vars

(* The ids of c a sweep at time t with the given retention must evict. *)
PastRetention(c, days, t) ==
    {i \in DOMAIN c :
        /\ c[i].Status = IncidentStatusResolved
        /\ c[i].ResolvedAt # NilTime
        /\ c[i].ResolvedAt < t - days * Day}

----------------------------------------------------------------------------
(* What the sweep of p leaves in the map: what it found less the evicted. *)
Swept(p) ==
    [i \in DOMAIN Pre(p) \ PastRetention(Pre(p), loc[p].days, loc[p].t) |-> Pre(p)[i]]

(* C16: a CleanupOldIncidents call starts a persist if and only if it      *)
(* removed at least one incident and the store has a file path; it starts  *)
(* it once, after all removals, with the serialization of the map as the   *)
(* removals left it; when that persist fails the call returns an error and *)
(* the removed incidents stay removed; a call that removed nothing leaves  *)
(* both files untouched and returns no error.                              *)
C16_CleanupPersistsOnce ==
    [][\A p \in Procs :
          /\ (Runs(p) /\ loc'[p].op = "Cleanup") =>
                /\ pc'[p] = "open" <=> (loc'[p].deleted > 0 /\ filePath # "")
                /\ pc'[p] = "open" =>
                      loc'[p].data = MarshalIndent(Contents(heap', incidents'))
                /\ pc'[p] # "open" => pc'[p] = "ret" /\ fs' = fs /\ loc'[p].err = ""
          /\ (loc[p].op = "Cleanup" /\ pc[p] # "idle" /\ pc'[p] = "open") => pc[p] = "open"
          /\ (loc[p].op = "Cleanup" /\ pc[p] \in PersistPcs /\ pc'[p] = "ret") =>
                /\ loc'[p].err = (IF loc'[p].perr = "" THEN "" ELSE "persist")
                /\ loc'[p].perr = "" => fs'.file = File(loc[p].data)
                /\ loc'[p].perr # "" => fs'.file = fs.file
                /\ Contents(heap', incidents') = Swept(p)
                /\ incidents' = incidents]_vars

C16_Witness ==
    \E p \in Procs :
        /\ AtRet(p, "Cleanup") /\ SaveFailed(p)
        /\ loc[p].err = "persist"
        /\ loc[p].deleted > 0
        /\ Cur = Swept(p)
        /\ Cur # Pre(p)

----------------------------------------------------------------------------
(* What a new store built on the file holds. *)
Reloaded(file) ==
    LET st == NewIncidentStoreWithPersistence(file)
    IN Contents(st.heap, st.incidents)

(* p has just completed a persist: the rename succeeded. *)
Saved(p) == pc[p] = "ret" /\ loc[p].data # <<>> /\ loc[p].perr = ""

----------------------------------------------------------------------------
(* Construction on whatever is found at the path of the incidents file:    *)
(* nothing, a complete document, or a document cut short at any point.     *)
(* The store is then read, and constructed again, but never written.       *)

BootFiles ==
    {Absent} \cup
    UNION {{File(SubSeq(MarshalIndent(c), 1, n)) : n \in 0..Len(MarshalIndent(c))} :
              c \in EarlierStores}

InitConstruct ==
    /\ now = StartTime
    /\ filePath = PersistFileName
    /\ fs \in [file : BootFiles, tmp : {Absent}]
    /\ boot = LoadFromFile(fs.file)
    /\ heap = Construct(filePath, fs.file).heap
    /\ incidents = Construct(filePath, fs.file).incidents
    /\ mu = [w |-> NoProc, r |-> {}]
    /\ pc = [p \in Procs |-> "idle"]
    /\ loc = [p \in Procs |-> IdleLoc]
    /\ ncalls = 0
    /\ committed = {}
    /\ ClientIdle

NextConstruct ==
    \/ Restart
    \/ \E p \in Procs :
        \/ GetCall(p)
        \/ ListCall(p)
        \/ CountCall(p)
        \/ Return(p)

SpecConstruct == InitConstruct /\ [][NextConstruct]_vars

(* C18: a persistent store constructed where no incidents file exists is   *)
(* empty and the constructor returns no error; constructed on a malformed  *)
(* file, the constructor returns the load error to its caller.             *)
C18_LoadErrorSurfaced ==
    /\ ~fs.file.exists =>
          /\ boot = [err |-> "", contents |-> EmptyMap]
          /\ ConstructError(boot.err) = ""
          /\ incidents = EmptyMap
    /\ (fs.file.exists /\ ~WellFormed(fs.file.data)) =>
          /\ boot.err # ""
          /\ ConstructError(boot.err) # ""

----------------------------------------------------------------------------
(* The pool client.  The store plays no part in it: it is a new in-memory  *)
(* store that nobody calls.                                                *)

StoreIdle ==
    /\ now = StartTime
    /\ filePath = ""
    /\ fs = [file |-> Absent, tmp |-> Absent]
    /\ boot = LoadFromFile(Absent)
    /\ heap = NewIncidentStore.heap
    /\ incidents = NewIncidentStore.incidents
    /\ mu = [w |-> NoProc, r |-> {}]
    /\ pc = [p \in Procs |-> "idle"]
    /\ loc = [p \in Procs |-> IdleLoc]
    /\ ncalls = 0
    /\ committed = {}

(* A caller's own IsPoolStable(ctx, poolName), lines 168-190, on whatever  *)
(* the dynamic client answers.                                             *)
IsPoolStableCall ==
    /\ \E answer \in ProviderAnswers :
          probe' = [called |-> TRUE,
                    answer |-> answer,
                    status |-> GetPoolStatus(answer).status,
                    stable |-> IsPoolStable(answer).stable,
                    err |-> IsPoolStable(answer).err]
    /\ UNCHANGED <<clock, ctxDone, wait, all, health, poolState, sweeper>>
    /\ UNCHANGED storeVars

InitStable == StoreIdle /\ ClientIdle

NextStable == IsPoolStableCall

SpecStable == InitStable /\ [][NextStable]_vars

----------------------------------------------------------------------------
(* WaitForPoolStable, lines 193-232.  The call is at one of:               *)
(*   "polling"  its IsPoolStable query of line 202 is in flight,           *)
(*   "logging"  its GetPoolStatus query of line 212 is in flight,          *)
(*   "select"   it is suspended in the select of lines 223-228,            *)
(*   "done"     it has returned wait.result.                               *)
(* polls counts its IsPoolStable queries and errs those that failed,       *)
(* topDone records whether the context was done when the iteration the     *)
(* call is in began, updating and degraded what the last poll saw.         *)

(* The timeouts callers pass, in units of the clock. *)
Timeouts == {-1, 0, 1, 3}

(* A loop condition that still holds at the deadline itself. *)
LoopTopInclusive(w) ==
    IF clock <= w.deadline
    THEN [w EXCEPT !.pc = "polling", !.polls = @ + 1, !.topDone = ctxDone]
    ELSE [w EXCEPT !.pc = "done", !.result = "timeout", !.topDone = FALSE]

(* Line 201, for time.Now().Before(deadline), and what follows it: the     *)
(* query of line 202 or the return of line 231.                            *)
LoopTop(w) ==
    IF clock < w.deadline
    THEN [w EXCEPT !.pc = "polling", !.polls = @ + 1, !.topDone = ctxDone]
    ELSE [w EXCEPT !.pc = "done", !.result = "timeout", !.topDone = FALSE]

(* A wait whose deadline is counted from the start of the enclosing        *)
(* WaitForAllPoolsStable call.                                             *)
WaitForPoolStableSharedDeadline(poolName, timeout) ==
    LoopTop([IdleWait EXCEPT !.pool = poolName,
                             !.timeout = timeout,
                             !.startedAt = clock,
                             !.deadline = all.startedAt + timeout])

(* Lines 193-202: the deadline is taken from the clock when the call       *)
(* starts, then the loop is entered.                                       *)
WaitForPoolStable(poolName, timeout) ==
    LoopTop([IdleWait EXCEPT !.pool = poolName,
                             !.timeout = timeout,
                             !.startedAt = clock,
                             !.deadline = clock + timeout])

(* The caller has made no call of the client yet; a behaviour follows one  *)
(* call of WaitForPoolStable, WaitForAllPoolsStable or HealthCheck.        *)
CallerIdle == wait.pc = "idle" /\ all.pc = "idle" /\ ~health.called

(* A caller calls WaitForPoolStable directly. *)
WaitForPoolStableCall ==
    /\ CallerIdle
    /\ \E poolName \in PoolNames, timeout \in Timeouts :
          wait' = WaitForPoolStable(poolName, timeout)
    /\ UNCHANGED <<clock, ctxDone, probe, all, health, poolState, sweeper>>
    /\ UNCHANGED storeVars

(* A wait that gives up when a poll fails. *)
AfterPollReturnsError(r) ==
    IF r.err # "" THEN [pc |-> "done", result |-> "provider"]
    ELSE IF r.stable THEN [pc |-> "done", result |-> "success"]
    ELSE [pc |-> "logging", result |-> ""]

(* A wait that takes a pool for stable as soon as a poll answers without   *)
(* an error.                                                               *)
AfterPollTrustsAnyAnswer(r) ==
    IF r.err # "" THEN [pc |-> "logging", result |-> ""]
    ELSE [pc |-> "done", result |-> "success"]

(* Lines 203-212: a failed poll is logged and the loop goes on, a stable   *)
(* pool returns nil, anything else goes on to the status query.            *)
AfterPoll(r) ==
    IF r.err # "" THEN [pc |-> "logging", result |-> ""]
    ELSE IF r.stable THEN [pc |-> "done", result |-> "success"]
    ELSE [pc |-> "logging", result |-> ""]

(* What an answer to IsPoolStable tells about the pool. *)
Told(r) ==
    IF r.err # "" THEN "unknown"
    ELSE IF r.stable THEN "stable"
    ELSE "unstable"

(* The answers of the provider a wait is followed over: those whose counts *)
(* are missing, small, or beyond int32.                                    *)
WaitAnswers ==
    {answer \in ProviderAnswers :
        /\ answer.object.machineCount \in {<<>>, <<2>>, <<maxInt64>>}
        /\ answer.object.updatedMachineCount \in {<<>>, <<2>>, <<maxInt64>>}}

(* The query of line 202 returns. *)
PollAnswered ==
    /\ wait.pc = "polling"
    /\ \E answer \in WaitAnswers :
          LET r == IsPoolStable(answer)
              status == GetPoolStatus(answer).status
          IN /\ wait' = [wait EXCEPT !.stable = r.stable,
                                     !.updating = status.Updating,
                                     !.degraded = status.Degraded,
                                     !.err = r.err,
                                     !.errs = IF r.err # "" THEN @ + 1 ELSE @,
                                     !.pc = AfterPoll(r).pc,
                                     !.result = AfterPoll(r).result]
             /\ poolState' = [poolState EXCEPT ![wait.pool] = Told(r)]
    /\ UNCHANGED <<clock, ctxDone, probe, all, health, sweeper>>
    /\ UNCHANGED storeVars

(* The query of line 212 returns, its answer is logged, and the select     *)
(* starts its timer.                                                       *)
LogAnswered ==
    /\ wait.pc = "logging"
    /\ \E answer \in WaitAnswers : GetPoolStatus(answer).err \in {"", "get", "parse"}
    /\ wait' = [wait EXCEPT !.pc = "select", !.timerAt = clock + PollInterval]
    /\ UNCHANGED <<clock, ctxDone, probe, all, health, poolState, sweeper>>
    /\ UNCHANGED storeVars

(* A select that sleeps for the whole interval and looks at the context    *)
(* only then.                                                              *)
SelectReadySleepsFirst(w) ==
    {c \in {"done", "timer"} : clock >= w.timerAt /\ (c = "done" => ctxDone)}

(* A select without the timer case: it waits for the context alone. *)
SelectReadyNoTimer(w) ==
    {c \in {"done"} : ctxDone}

(* Lines 223-228: the cases of the select that can proceed.  When both     *)
(* can, the runtime takes either.                                          *)
SelectReady(w) ==
    {c \in {"done", "timer"} :
        IF c = "done" THEN ctxDone ELSE clock >= w.timerAt}

(* Line 224: case <-ctx.Done(). *)
SelectDone ==
    /\ wait.pc = "select"
    /\ "done" \in SelectReady(wait)
    /\ wait' = [wait EXCEPT !.pc = "done", !.result = "cancelled"]
    /\ UNCHANGED <<clock, ctxDone, probe, all, health, poolState, sweeper>>
    /\ UNCHANGED storeVars

(* Line 226: case <-time.After(10 * time.Second), then the loop condition. *)
SelectTimer ==
    /\ wait.pc = "select"
    /\ "timer" \in SelectReady(wait)
    /\ wait' = LoopTop(wait)
    /\ UNCHANGED <<clock, ctxDone, probe, all, health, poolState, sweeper>>
    /\ UNCHANGED storeVars

(* Time passes, except past the moment a suspended wait is woken.  The     *)
(* clock is followed up to MaxClock, and beyond it only as far as the      *)
(* timer a suspended wait is waiting for.                                  *)
ClockTick ==
    /\ clock < MaxClock \/ (wait.pc = "select" /\ clock < wait.timerAt)
    /\ ~(wait.pc = "select" /\ SelectReady(wait) # {})
    /\ clock' = clock + 1
    /\ UNCHANGED <<ctxDone, wait, probe, all, health, poolState, sweeper>>
    /\ UNCHANGED storeVars

(* The caller cancels the context. *)
Cancel ==
    /\ ~ctxDone
    /\ ctxDone' = TRUE
    /\ UNCHANGED <<clock, wait, probe, all, health, poolState, sweeper>>
    /\ UNCHANGED storeVars

InitWait == StoreIdle /\ ClientIdle

NextWait ==
    \/ WaitForPoolStableCall
    \/ PollAnswered
    \/ LogAnswered
    \/ SelectDone
    \/ SelectTimer
    \/ ClockTick
    \/ Cancel

SpecWait == InitWait /\ [][NextWait]_vars

WaitOutcomes == {"success", "timeout", "cancelled"}

(* C20: WaitForPoolStable returns once, with success, the timeout error or *)
(* the cancellation error.  A poll that fails never ends the wait: the     *)
(* wait goes on to the select, and leaves the select only to poll again    *)
(* when the interval has passed before the deadline, to return the timeout *)
(* error when it has passed at or after the deadline, or to return the     *)
(* cancellation error when the context is done; success is returned only   *)
(* from a poll that reported the pool stable.                              *)
C20_WaitOutcomes ==
    [][/\ (wait.pc = "polling" /\ wait'.pc # "polling" /\ wait'.err # "") =>
            wait'.pc = "logging" /\ wait'.result = ""
       /\ (wait.pc = "logging" /\ wait'.pc # "logging") =>
            wait'.pc = "select" /\ wait'.timerAt = clock + PollInterval
       /\ (wait.pc = "select" /\ wait'.pc # "select") =>
            \/ /\ wait'.pc = "polling"
               /\ clock >= wait.timerAt /\ clock < wait.deadline
               /\ wait'.polls = wait.polls + 1
            \/ /\ wait'.pc = "done" /\ wait'.result = "timeout"
               /\ clock >= wait.timerAt /\ clock >= wait.deadline
            \/ /\ wait'.pc = "done" /\ wait'.result = "cancelled"
               /\ ctxDone
       /\ wait'.pc = "done" => wait'.result \in WaitOutcomes
       /\ (wait.pc # "done" /\ wait'.pc = "done" /\ wait'.result = "success") =>
            wait.pc = "polling" /\ wait'.stable /\ wait'.err = ""
       /\ wait.pc = "done" => wait' = wait]_vars

C20_Witness ==
    /\ wait.pc = "done"
    /\ wait.result = "success"
    /\ wait.errs >= 1
    /\ wait.polls >= 2

----------------------------------------------------------------------------
(* WaitForAllPoolsStable, lines 254-276.  The call is at one of:           *)
(*   "listing"  its List query of line 257 is in flight,                   *)
(*   "waiting"  it is in the WaitForPoolStable call of line 269 for the    *)
(*              pool at position i of the listing, which is the call that  *)
(*              wait describes,                                            *)
(*   "done"     it has returned all.result.                                *)
(* lists counts its List queries, answer is what the List query answered,  *)
(* and returned holds what its WaitForPoolStable calls have returned.      *)

(* Lines 254-257. *)
WaitForAllPoolsStableCall ==
    /\ CallerIdle
    /\ \E timeout \in Timeouts :
          all' = [IdleAll EXCEPT !.pc = "listing",
                                 !.timeout = timeout,
                                 !.startedAt = clock,
                                 !.lists = 1]
    /\ UNCHANGED <<clock, ctxDone, wait, probe, health, poolState, sweeper>>
    /\ UNCHANGED storeVars

(* Lines 257-269: the List query returns; an error and an empty listing    *)
(* end the call, anything else starts the wait for the first pool.         *)
ListAnswered ==
    /\ all.pc = "listing"
    /\ \E answer \in ListAnswers :
          LET listed == ListMachineConfigPools(answer)
          IN IF listed.err # ""
             THEN /\ all' = [all EXCEPT !.pc = "done", !.answer = answer,
                                        !.result = "list"]
                  /\ wait' = wait
             ELSE IF Len(listed.pools) = 0
             THEN /\ all' = [all EXCEPT !.pc = "done", !.answer = answer,
                                        !.result = "success"]
                  /\ wait' = wait
             ELSE /\ all' = [all EXCEPT !.pc = "waiting", !.answer = answer,
                                        !.pools = listed.pools, !.i = 1]
                  /\ wait' = WaitForPoolStable(listed.pools[1], all.timeout)
    /\ UNCHANGED <<clock, ctxDone, probe, health, poolState, sweeper>>
    /\ UNCHANGED storeVars

(* A loop that goes on to the next pool when a wait fails, and reports the *)
(* last failure at the end.                                                *)
AfterWaitBestEffort(a, w) ==
    IF a.i < Len(a.pools)
    THEN [a EXCEPT !.i = @ + 1, !.returned = Append(@, w.result)]
    ELSE [a EXCEPT !.pc = "done", !.result = w.result,
                   !.returned = Append(@, w.result)]

(* Lines 268-275, when WaitForPoolStable has returned w.result: an error   *)
(* ends the call, success moves on to the next pool or ends the call.      *)
AfterWait(a, w) ==
    IF w.result # "success"
    THEN [a EXCEPT !.pc = "done", !.result = w.result, !.failed = w.pool,
                   !.returned = Append(@, w.result)]
    ELSE IF a.i < Len(a.pools)
    THEN [a EXCEPT !.i = @ + 1, !.returned = Append(@, w.result)]
    ELSE [a EXCEPT !.pc = "done", !.result = "success",
                   !.returned = Append(@, w.result)]

(* Lines 268-275: the WaitForPoolStable call of line 269 returns. *)
WaitReturned ==
    /\ all.pc = "waiting"
    /\ wait.pc = "done"
    /\ all' = AfterWait(all, wait)
    /\ wait' = IF all'.pc = "waiting"
               THEN WaitForPoolStable(all'.pools[all'.i], all'.timeout)
               ELSE wait
    /\ UNCHANGED <<clock, ctxDone, probe, health, poolState, sweeper>>
    /\ UNCHANGED storeVars

(* HealthCheck, lines 279-285, with the answer of its List query. *)
HealthCheckCall ==
    /\ CallerIdle
    /\ \E answer \in ListAnswers :
          health' = [called |-> TRUE, answer |-> answer, err |-> HealthCheck(answer)]
    /\ UNCHANGED <<clock, ctxDone, wait, probe, all, poolState, sweeper>>
    /\ UNCHANGED storeVars

(* The waits alone: a direct WaitForPoolStable or a WaitForAllPoolsStable. *)
NextWaits ==
    \/ NextWait
    \/ WaitForAllPoolsStableCall
    \/ ListAnswered
    \/ WaitReturned

InitWaitAll == StoreIdle /\ ClientIdle

NextWaitAll ==
    \/ NextWaits
    \/ HealthCheckCall

SpecWaitAll == InitWaitAll /\ [][NextWaitAll]_vars

(* C21: WaitForPoolStable returns success exactly from a poll of its own   *)
(* that answered stable without an error: a return of success is the step  *)
(* that ends such a poll, such a poll is followed by the return and not by *)
(* the status query or the select, and a poll that saw the pool updating   *)
(* or degraded goes on without a result.                                   *)
C21_SuccessIffStablePoll ==
    [][/\ (wait.pc # "done" /\ wait'.pc = "done" /\ wait'.result = "success") =>
            /\ wait.pc = "polling"
            /\ wait'.stable /\ wait'.err = ""
            /\ ~wait'.updating /\ ~wait'.degraded
       /\ (wait.pc = "polling" /\ wait'.pc # "polling" /\ wait'.stable /\ wait'.err = "") =>
            /\ wait'.pc = "done" /\ wait'.result = "success"
            /\ wait'.timerAt = wait.timerAt /\ wait'.polls = wait.polls
       /\ (wait.pc = "polling" /\ wait'.pc # "polling"
              /\ (wait'.updating \/ wait'.degraded)) =>
            wait'.pc = "logging" /\ wait'.result = ""]_vars

C21_Witness ==
    /\ wait.pc = "done"
    /\ wait.result = "success"
    /\ wait.polls = 2
    /\ wait.errs = 0

(* C22: while WaitForPoolStable is suspended in the select and its timer    *)
(* has not fired, a done context makes the ctx.Done() case ready at once:  *)
(* no time passes before the wait moves, and its only move is the return   *)
(* of the cancellation error, with no further poll.                        *)
C22_CancelWakesSelect ==
    [][(wait.pc = "select" /\ ctxDone /\ clock < wait.timerAt) =>
          /\ "done" \in SelectReady(wait)
          /\ clock' = clock
          /\ \/ wait' = wait
             \/ /\ wait'.pc = "done"
                /\ wait'.result = "cancelled"
                /\ wait'.polls = wait.polls]_vars

(* The context was cancelled one tick into the suspension. *)
C22_Witness ==
    /\ wait.pc = "done"
    /\ wait.result = "cancelled"
    /\ wait.polls >= 1
    /\ clock = wait.timerAt - 1

(* C23: once the context is done, WaitForPoolStable starts no provider     *)
(* query, neither the poll of line 202 nor the status query of line 212.   *)
C23_NoQueryAfterCancel ==
    [][(wait'.pc # wait.pc /\ wait'.pc \in {"polling", "logging"}) => ~ctxDone]_vars

(* C24: an iteration of WaitForPoolStable that begins with the context     *)
(* already done ends the wait with the cancellation error, never with      *)
(* success.                                                                *)
C24_CancelledAtTopReturnsCancelled ==
    (wait.pc = "done" /\ wait.topDone) => wait.result = "cancelled"

(* C25: WaitForAllPoolsStable lists the pools once, at its start, and      *)
(* waits for them one after the other in the order of the listing: every   *)
(* status query it issues is for the pool at the position it is at, the    *)
(* waits for all earlier positions have returned success, and it moves to  *)
(* the next position only when the wait for the current one has returned   *)
(* success.                                                                *)
C25_SequentialInListingOrder ==
    [][/\ all'.pc # "idle" => all'.lists = 1
       /\ all'.pc = "waiting" =>
            /\ all'.pools = [k \in DOMAIN all'.answer.items |-> all'.answer.items[k].name]
            /\ all'.i \in 1..Len(all'.pools)
       /\ (all.pc = "waiting" /\ all'.pc = "waiting") =>
            /\ all'.answer = all.answer
            /\ all'.i \in {all.i, all.i + 1}
            /\ all'.i = all.i + 1 =>
                  /\ wait.pc = "done"
                  /\ wait.result = "success"
                  /\ wait.pool = all.pools[all.i]
       /\ (wait'.pc \in {"polling", "logging"} /\ wait'.pc # wait.pc
              /\ all'.pc # "idle") =>
            /\ all'.pc = "waiting"
            /\ wait'.pool = all'.answer.items[all'.i].name
            /\ Len(all'.returned) = all'.i - 1
            /\ \A k \in 1..(all'.i - 1) : all'.returned[k] = "success"]_vars

C25_Witness ==
    /\ all.pc = "waiting"
    /\ all.pools = <<"worker", "master">>
    /\ all.i = 2
    /\ wait.pool = "master"
    /\ wait.pc = "logging"

(* C26: when a WaitForPoolStable call inside WaitForAllPoolsStable returns *)
(* the timeout or the cancellation error, WaitForAllPoolsStable returns    *)
(* that failure for that pool as its next step, and once it has returned   *)
(* no status query is issued: the pools later in the listing are never     *)
(* queried.                                                                *)
C26_FailFast ==
    [][/\ (all.pc = "waiting" /\ wait.pc = "done" /\ wait.result # "success") =>
            /\ wait' = wait
            /\ \/ all' = all
               \/ /\ all'.pc = "done"
                  /\ all'.result = wait.result
                  /\ all'.result \in {"timeout", "cancelled"}
                  /\ all'.failed = all.pools[all.i]
                  /\ all'.i = all.i
       /\ all.pc = "done" => (all' = all /\ wait' = wait)]_vars

C26_Witness ==
    /\ all.pc = "done"
    /\ all.result = "timeout"
    /\ all.pools = <<"master", "worker">>
    /\ all.i = 1
    /\ all.failed = "master"
    /\ wait.polls >= 1

(* C27: every WaitForPoolStable call inside WaitForAllPoolsStable takes    *)
(* its deadline from the clock at its own start plus the whole timeout of  *)
(* the WaitForAllPoolsStable call, and keeps it until it returns.          *)
C27_OwnDeadlinePerPool ==
    [][/\ (all'.pc = "waiting" /\ (all.pc # "waiting" \/ all'.i # all.i)) =>
            /\ wait'.timeout = all'.timeout
            /\ wait'.startedAt = clock
            /\ wait'.deadline = clock + all'.timeout
       /\ (all.pc = "waiting" /\ all'.pc = "waiting" /\ all'.i = all.i) =>
            /\ wait'.deadline = wait.deadline
            /\ all'.timeout = all.timeout]_vars

(* The second pool is polled after the timeout has passed since the start  *)
(* of the WaitForAllPoolsStable call.                                      *)
C27_Witness ==
    /\ all.pc = "waiting"
    /\ all.i = 2
    /\ wait.pc = "polling"
    /\ wait.startedAt > all.startedAt
    /\ clock >= all.startedAt + all.timeout

(* C28: WaitForAllPoolsStable returns an error, with no status query       *)
(* issued, when its List query fails, and success, with no status query    *)
(* issued, when the listing is empty; HealthCheck returns an error exactly *)
(* when its List query fails.                                              *)
C28_EmptyListingAndHealth ==
    /\ (all.pc \notin {"idle", "listing"} /\ all.answer.err # "") =>
          all.pc = "done" /\ all.result = "list" /\ wait = IdleWait
    /\ (all.pc \notin {"idle", "listing"} /\ all.answer.err = "" /\ all.answer.items = <<>>) =>
          all.pc = "done" /\ all.result = "success" /\ wait = IdleWait
    /\ all.pc = "listing" => wait = IdleWait
    /\ health.called => (health.err # "" <=> health.answer.err # "")

C28_Witness ==
    /\ all.pc = "done"
    /\ all.answer.err = ""
    /\ all.answer.items = <<>>
    /\ all.result = "success"
    /\ clock >= 1

----------------------------------------------------------------------------
(* The waits under the scheduling the code relies on: every query of the   *)
(* provider returns, a goroutine that can take a step takes it, a select   *)
(* with a ready case proceeds, and time advances.  Nothing obliges the     *)
(* caller to make a call or to cancel the context.                         *)
FairWaits ==
    /\ WF_vars(PollAnswered)
    /\ WF_vars(LogAnswered)
    /\ WF_vars(SelectDone \/ SelectTimer)
    /\ WF_vars(ClockTick)
    /\ WF_vars(ListAnswered)
    /\ WF_vars(WaitReturned)

SpecWaitsFair == InitWaitAll /\ [][NextWaits]_vars /\ FairWaits

(* C29: a WaitForPoolStable call that has started eventually returns, and  *)
(* a WaitForAllPoolsStable call that has started eventually returns,       *)
(* whatever the provider answers and whether or not the context is ever    *)
(* cancelled.                                                              *)
C29_WaitsReturn ==
    /\ (wait.pc \in {"polling", "logging", "select"}) ~> (wait.pc = "done")
    /\ (all.pc \in {"listing", "waiting"}) ~> (all.pc = "done")

(* The provider failed on every poll and the wait ran into its deadline. *)
C29_Witness ==
    /\ wait.pc = "done"
    /\ wait.result = "timeout"
    /\ wait.polls >= 2
    /\ wait.errs = wait.polls
    /\ ~ctxDone

----------------------------------------------------------------------------
(* C30: a count v the provider reports is stored as v when v is in the     *)
(* range of int32, as the int32 maximum when v is above it and as the      *)
(* int32 minimum when v is below it.  The stored count of a v out of range *)
(* is never the truncation int32(v), except for the v whose truncation is  *)
(* itself the bound v is clamped to.                                       *)
C30_CountsClamped ==
    (probe.called /\ probe.err = "") =>
        \A rc \in {<<probe.answer.object.machineCount, probe.status.MachineCount>>,
                   <<probe.answer.object.updatedMachineCount,
                     probe.status.UpdatedMachineCount>>} :
            rc[1] # <<>> =>
                LET v == rc[1][1]
                    stored == rc[2]
                IN /\ v \in minInt64..maxInt64
                   /\ stored \in minInt32..maxInt32
                   /\ (v >= minInt32 /\ v <= maxInt32) => stored = v
                   /\ v > maxInt32 => stored = maxInt32
                   /\ v < minInt32 => stored = minInt32
                   /\ (v > maxInt32 /\ int32(v) # maxInt32) => stored # int32(v)
                   /\ (v < minInt32 /\ int32(v) # minInt32) => stored # int32(v)

C30_Witness ==
    /\ probe.called
    /\ probe.err = ""
    /\ probe.answer.object.machineCount = <<maxInt32 + 1>>
    /\ probe.status.MachineCount = maxInt32
    /\ probe.answer.object.updatedMachineCount = <<minInt64>>
    /\ probe.status.UpdatedMachineCount = minInt32

----------------------------------------------------------------------------
(* C37: WaitForPoolStable starts a poll only when the clock is strictly    *)
(* before its deadline, and returns the timeout error only from the loop   *)
(* condition, at the call or after the timer of the select, when the clock *)
(* has reached the deadline.  A call with timeout <= 0 returns the timeout *)
(* error without a poll; a call with timeout > 0 polls at once, before any *)
(* time has passed.                                                        *)
C37_PollOnlyBeforeDeadline ==
    [][/\ (wait'.pc = "polling" /\ wait.pc # "polling") =>
            /\ clock < wait'.deadline
            /\ wait.pc \in {"idle", "done", "select"}
       /\ (wait'.pc = "done" /\ wait.pc # "done" /\ wait'.result = "timeout") =>
            /\ wait.pc \in {"idle", "select"}
            /\ clock >= wait'.deadline
            /\ wait.pc = "select" => clock >= wait.timerAt
            /\ wait'.polls = wait.polls
       /\ (wait.pc = "idle" /\ wait'.pc # "idle") =>
            /\ wait'.deadline = clock + wait'.timeout
            /\ clock' = clock
            /\ IF wait'.timeout <= 0
               THEN wait'.pc = "done" /\ wait'.result = "timeout" /\ wait'.polls = 0
               ELSE wait'.pc = "polling" /\ wait'.polls = 1]_vars

C37_Witness ==
    /\ wait.pc = "done"
    /\ wait.result = "timeout"
    /\ wait.timeout = 0
    /\ wait.polls = 0
    /\ all.pc = "idle"

(* C38: WaitForPoolStable is never suspended in the select at a time after *)
(* its deadline.                                                           *)
C38_NotSuspendedPastDeadline ==
    wait.pc = "select" => clock <= wait.deadline

(* C40: when IsPoolStable returns true and the provider reported both      *)
(* counts, the two counts it reported are equal.                           *)
C40_StableOnlyIfRawCountsEqual ==
    (/\ probe.called
     /\ probe.stable
     /\ probe.answer.object.machineCount # <<>>
     /\ probe.answer.object.updatedMachineCount # <<>>) =>
        probe.answer.object.updatedMachineCount = probe.answer.object.machineCount

----------------------------------------------------------------------------
(* The pools themselves.  poolState holds, for each pool, what the last    *)
(* answer to a poll said of it; a pool that was stable may at any time     *)
(* start an update or degrade, without the client being told.              *)
PoolStartsUpdating ==
    /\ \E p \in PoolNames :
          /\ poolState[p] = "stable"
          /\ poolState' = [poolState EXCEPT ![p] = "unstable"]
    /\ UNCHANGED <<clock, ctxDone, wait, probe, all, health, sweeper>>
    /\ UNCHANGED storeVars

NextPools ==
    \/ NextWaits
    \/ PoolStartsUpdating

SpecPools == InitWaitAll /\ [][NextPools]_vars

(* C39: at the step by which WaitForAllPoolsStable returns success, every  *)
(* pool of the listing is stable.                                          *)
C39_AllStableAtReturn ==
    [][(all.pc # "done" /\ all'.pc = "done" /\ all'.result = "success") =>
          \A k \in DOMAIN all'.pools : poolState'[all'.pools[k]] = "stable"]_vars

----------------------------------------------------------------------------
(* C33: a persist whose rename fails changes neither file at that step;    *)
(* its os.Remove leaves incidents.json as it is and, unless the removal    *)
(* itself fails, leaves no temp file; the persist then reports the rename  *)
(* error and the operation returns an error.  Inside Create, Update,       *)
(* Delete and CleanupOldIncidents incidents.json is then still the file    *)
(* the operation found.                                                    *)
C33_FailedRenameCleansUp ==
    [][\A p \in Procs :
          /\ (pc[p] = "rename" /\ pc'[p] = "remove") =>
                /\ fs' = fs
                /\ loc'[p].perr = "rename"
          /\ (pc[p] = "remove" /\ pc'[p] = "ret") =>
                /\ fs'.file = fs.file
                /\ loc'[p].rmErr = "" => ~fs'.tmp.exists
                /\ loc'[p].perr = "rename"
                /\ loc'[p].err = "persist"
                /\ loc[p].op \in Mutators => fs'.file = loc[p].preFile]_vars

C33_Witness ==
    \E p \in Procs :
        /\ pc[p] = "ret"
        /\ loc[p].op \in Mutators
        /\ loc[p].perr = "rename"
        /\ loc[p].rmErr = ""
        /\ loc[p].err = "persist"
        /\ fs.file.exists
        /\ ~fs.tmp.exists

(* C34: when Create returns without error, the map has one id more than    *)
(* when the call took the lock, and every id stored then is still stored   *)
(* with the record it had then.                                            *)
C34_CreateNeverReplaces ==
    \A p \in Procs :
        (pc[p] = "ret" /\ loc[p].op = "Create" /\ loc[p].err = "") =>
            /\ Cardinality(DOMAIN incidents) = Cardinality(DOMAIN loc[p].preMap) + 1
            /\ \A id \in DOMAIN loc[p].preMap :
                  /\ id \in DOMAIN incidents
                  /\ heap[incidents[id]] = loc[p].preHeap[loc[p].preMap[id]]

(* C35: at the step by which a persist succeeds, inside any operation, the *)
(* file it leaves encodes exactly the in-memory map of that moment.        *)
C35_SuccessfulPersistSyncs ==
    [][\A p \in Procs :
          (pc[p] = "rename" /\ pc'[p] = "ret" /\ loc'[p].perr = "") =>
              FileEncodes(fs'.file, Contents(heap', incidents'))]_vars

----------------------------------------------------------------------------
(* The ledger and a caller that keeps the pointers it was given.  Get      *)
(* (line 113) and List (line 207) return the stored *models.Incident, and  *)
(* Create (line 89) and Update (line 128) store the pointer they are       *)
(* passed, so the caller holds every object of the map and can write a     *)
(* field of it without calling the store.                                  *)

CallerModifies ==
    /\ ncalls < MaxCalls
    /\ \E o \in Range(incidents), severity \in {"high", "low"} :
        /\ heap[o].Severity # severity
        /\ heap' = [heap EXCEPT ![o].Severity = severity]
    /\ ncalls' = ncalls + 1
    /\ UNCHANGED <<now, filePath, incidents, mu, fs, pc, loc, boot, committed>>
    /\ UNCHANGED clientVars

NextCallers ==
    \/ NextMutations
    \/ \E p \in Procs : GetCall(p) \/ ListCall(p)
    \/ CallerModifies

SpecCallers == InitMutations /\ [][NextCallers]_vars

(* C36: the records stored under the ids change only through ledger        *)
(* operations: a step in which no call of the store advances, such as a    *)
(* caller writing to an object it got from Get or List or passed to Create *)
(* or Update, leaves every stored record as it was.                        *)
C36_OnlyLedgerChangesRecords ==
    [][pc' = pc => Contents(heap', incidents') = Contents(heap, incidents)]_vars

----------------------------------------------------------------------------
(* The cleanup worker of src/todo.md, lines 121-134: a goroutine that      *)
(* selects on its ticker and on stopCh and runs the cleanup at each tick.  *)
(* The run is CleanupOldIncidents of the store, whose error the worker     *)
(* logs.                                                                   *)

(* Mutant of SweeperSelect: the select has no stop case. *)
SweeperSelectIgnoresStop(s) ==
    IF s.pending THEN {"tick"} ELSE {}

(* The cases of the select (lines 126-132) that are ready. *)
SweeperSelect(s) ==
    (IF s.pending THEN {"tick"} ELSE {}) \cup (IF s.stop THEN {"stop"} ELSE {})

(* Mutant of SweeperAfterRun: a failed run ends the worker. *)
SweeperAfterRunStopsOnError(err) ==
    IF err # "" THEN "done" ELSE "select"

(* After a run the for loop (line 125) goes round, whatever the run gave. *)
SweeperAfterRun(err) == "select"

(* The stores the worker is started on: empty, or holding one incident. *)
SweeperStores == {kinds \in RetentionStores : DOMAIN kinds \subseteq {1}}

(* go s.startCleanupWorker(retentionDays) on a store that has a file. *)
InitSweeper ==
    /\ now = StartTime
    /\ filePath = PersistFileName
    /\ fs \in [file : {RetentionFile(kinds) : kinds \in SweeperStores}, tmp : {Absent}]
    /\ boot = LoadFromFile(fs.file)
    /\ heap = Construct(filePath, fs.file).heap
    /\ incidents = Construct(filePath, fs.file).incidents
    /\ mu = [w |-> NoProc, r |-> {}]
    /\ pc = [p \in Procs |-> "idle"]
    /\ loc = [p \in Procs |-> IdleLoc]
    /\ ncalls = 0
    /\ committed = {fs.file.data}
    /\ clock = 0
    /\ ctxDone = FALSE
    /\ wait = IdleWait
    /\ probe = NoProbe
    /\ all = IdleAll
    /\ health = NoHealth
    /\ poolState = [p \in PoolNames |-> "unknown"]
    /\ sweeper \in {[NoSweeper EXCEPT !.pc = "select", !.days = d] : d \in RetentionChoices}

(* The ticker (line 122) puts a tick in ticker.C, which holds one tick; a  *)
(* tick that finds the channel full is dropped by the runtime.             *)
Tick ==
    /\ sweeper.pc \in {"select", "run", "unlock"}
    /\ ~sweeper.pending
    /\ sweeper.ticks < MaxCalls
    /\ sweeper' = [sweeper EXCEPT !.pending = TRUE, !.ticks = @ + 1]
    /\ UNCHANGED <<clock, ctxDone, wait, probe, all, health, poolState>>
    /\ UNCHANGED storeVars

(* The application shuts down: stopCh is closed. *)
Stop ==
    /\ sweeper.pc \in {"select", "run", "unlock"}
    /\ ~sweeper.stop
    /\ sweeper' = [sweeper EXCEPT !.stop = TRUE]
    /\ UNCHANGED <<clock, ctxDone, wait, probe, all, health, poolState>>
    /\ UNCHANGED storeVars

(* case <-ticker.C (line 127). *)
SelectTick ==
    /\ sweeper.pc = "select"
    /\ "tick" \in SweeperSelect(sweeper)
    /\ sweeper' = [sweeper EXCEPT !.pc = "run", !.pending = FALSE, !.taken = @ + 1]
    /\ UNCHANGED <<clock, ctxDone, wait, probe, all, health, poolState>>
    /\ UNCHANGED storeVars

(* case <-s.stopCh (lines 129-131): log and return. *)
SelectStop ==
    /\ sweeper.pc = "select"
    /\ "stop" \in SweeperSelect(sweeper)
    /\ sweeper' = [sweeper EXCEPT !.pc = "done"]
    /\ UNCHANGED <<clock, ctxDone, wait, probe, all, health, poolState>>
    /\ UNCHANGED storeVars

(* Line 128: the run the tick triggers, with the worker's retention. *)
SweeperCleanup ==
    /\ sweeper.pc = "run"
    /\ ncalls < sweeper.taken
    /\ \E p \in Procs : CleanupCall(p) /\ loc'[p].days = sweeper.days

(* The run's persist, part_000 lines 230-261. *)
SweeperPersist ==
    /\ sweeper.pc = "run"
    /\ \E p \in Procs : OpenTmp(p) \/ WriteTmp(p) \/ RenameTmp(p) \/ RemoveTmp(p)

(* CleanupOldIncidents has set its results; the worker logs an error. *)
SweeperRunReturns ==
    /\ sweeper.pc = "run"
    /\ ncalls = sweeper.taken
    /\ \E p \in Procs :
        /\ pc[p] = "ret"
        /\ sweeper' = [sweeper EXCEPT !.pc = "unlock", !.lastErr = loc[p].err,
                                      !.errs = IF loc[p].err # "" THEN @ + 1 ELSE @]
    /\ UNCHANGED <<clock, ctxDone, wait, probe, all, health, poolState>>
    /\ UNCHANGED storeVars

(* The deferred Unlock of the run. *)
SweeperUnlock ==
    /\ sweeper.pc = "unlock"
    /\ \E p \in Procs : Return(p)

(* Back to the top of the for loop (line 125). *)
SweeperLoops ==
    /\ sweeper.pc = "unlock"
    /\ \A p \in Procs : pc[p] = "idle"
    /\ sweeper' = [sweeper EXCEPT !.pc = SweeperAfterRun(sweeper.lastErr)]
    /\ UNCHANGED <<clock, ctxDone, wait, probe, all, health, poolState>>
    /\ UNCHANGED storeVars

NextSweeper ==
    \/ Tick
    \/ Stop
    \/ SelectTick
    \/ SelectStop
    \/ SweeperCleanup
    \/ SweeperPersist
    \/ SweeperRunReturns
    \/ SweeperUnlock
    \/ SweeperLoops

(* The worker is a goroutine the scheduler keeps running, and a select     *)
(* with several ready cases picks one of them at random, so a case that is *)
(* ready again and again is taken in the end.                              *)
FairSweeper ==
    /\ WF_vars(SelectTick)
    /\ SF_vars(SelectStop)
    /\ WF_vars(SweeperCleanup)
    /\ WF_vars(SweeperPersist)
    /\ WF_vars(SweeperRunReturns)
    /\ WF_vars(SweeperUnlock)
    /\ WF_vars(SweeperLoops)

SpecSweeper == InitSweeper /\ [][NextSweeper]_vars /\ FairSweeper

====
